---- MODULE Spec2Model ----
(***************************************************************************)
(* Anamnesis: the extraction-and-retrieval pipeline.                       *)
(*                                                                         *)
(* State: the relational tables (patients, encounters, utterances,         *)
(* structured_intake, patient_chunks) and the outcome of the last call.    *)
(* Operations: build_structured_intake_with_llm,                           *)
(* build_structured_intake_for_encounter, index_encounter_for_rag,         *)
(* retrieve_patient_chunks, answer_doctor_question.                        *)
(*                                                                         *)
(* Conventions.  A Python str is a sequence of one-character strings (a    *)
(* literal of the code is one token of the sequence).  Optional[str] is a  *)
(* sequence of length 0 (None) or 1 (the string).  A parsed JSON value is  *)
(* a record [t, v] with t in null, str, num, list, obj.                    *)
(***************************************************************************)
EXTENDS Integers, Sequences, FiniteSets, TLC

VARIABLES patients, encounters, utterances, structured_intake, patient_chunks,
          native_dim, returned, out, requests, session_states

vars == <<patients, encounters, utterances, structured_intake, patient_chunks,
          native_dim, returned, out, requests, session_states>>

(***************************************************************************)
(* Bounds of the model.                                                    *)
(***************************************************************************)
\* rows of the utterances table in the extraction specification
MaxUtts == 1
\* turns of the one transcript of the heuristic specification
MaxTurns == 2
\* rows of patient_chunks
MaxChunks == 3
\* largest k of a retrieval
MaxK == 2
\* messages posted to an encounter after its intake is complete
MaxExtraMessages == 1
\* chunks given to the context builder
MaxContextChunks == 3
\* turns of a transcript given to the utterance chunker
MaxPairTurns == 3

(***************************************************************************)
(* Identifiers and texts the inputs are drawn from.                        *)
(***************************************************************************)
PatientIds == {"pA", "pB"}
\* a patient id no row has
NoPatient == "pZ"
EncounterIds == {"e1", "e2"}
\* an encounter id no row has
NoEncounter == "e9"
PatientOfEncounter == [e1 |-> "pA", e2 |-> "pB"]

Whitespace == {" ", "\n"}
\* plain, padded on both sides
Texts == {<<"a">>, <<" ", "b", "\n">>}
\* also whitespace only, the empty string and inner whitespace
HeurTexts == Texts \cup {<<" ">>, <<>>, <<"a", " ", "b">>}
TsValues == {1, 2}

None == <<>>
Some(s) == <<s>>
\* Python truthiness of an Optional[str]: neither None nor ""
Truthy(o) == o # <<>> /\ o[1] # <<>>

(***************************************************************************)
(* str.strip()                                                             *)
(***************************************************************************)
RECURSIVE LStrip(_)
LStrip(s) ==
  IF s # <<>> /\ Head(s) \in Whitespace THEN LStrip(Tail(s)) ELSE s

RECURSIVE RStrip(_)
RStrip(s) ==
  IF s # <<>> /\ s[Len(s)] \in Whitespace
  THEN RStrip(SubSeq(s, 1, Len(s) - 1))
  ELSE s

Strip(s) == RStrip(LStrip(s))

(***************************************************************************)
(* The utterances table and _load_utterances_for_encounter: the rows of    *)
(* the encounter ordered by (ts, id).                                      *)
(***************************************************************************)
\* an order by id alone
RowBeforeById(a, b) == a.id < b.id

\* ORDER BY ts ASC, id ASC
RowBefore(a, b) == a.ts < b.ts \/ (a.ts = b.ts /\ a.id < b.id)

RECURSIVE SortRows(_)
SortRows(rows) ==
  IF rows = {} THEN <<>>
  ELSE LET first == CHOOSE r \in rows : \A o \in rows \ {r} : RowBefore(r, o)
       IN <<first>> \o SortRows(rows \ {first})

load_utterances_for_encounter(encounter_id) ==
  SortRows({u \in utterances : u.encounter_id = encounter_id})

(***************************************************************************)
(* The heuristic extractors.                                               *)
(***************************************************************************)
RECURSIVE extract_chief_complaint(_)
extract_chief_complaint(utts) ==
  IF utts = <<>> THEN None
  ELSE IF Head(utts).speaker = "patient" THEN Some(Strip(Head(utts).text))
  ELSE extract_chief_complaint(Tail(utts))

RECURSIVE PatientGoalsLoop(_, _)
PatientGoalsLoop(utts, last_patient_text) ==
  IF utts = <<>> THEN last_patient_text
  ELSE PatientGoalsLoop(Tail(utts),
         IF Head(utts).speaker = "patient"
         THEN Some(Strip(Head(utts).text))
         ELSE last_patient_text)

extract_patient_goals(utts) == PatientGoalsLoop(utts, None)

Symptom(name) ==
  [name |-> name, onset |-> None, duration |-> None, location |-> None,
   character |-> None, severity |-> None, aggravating_factors |-> None,
   relieving_factors |-> None, associated_symptoms |-> <<>>, red_flags |-> <<>>]

extract_symptoms(utts) ==
  IF ~Truthy(extract_chief_complaint(utts)) THEN <<>>
  ELSE <<Symptom(<<"reported symptom">>)>>

extract_medications(utts) == <<>>

extract_allergies(utts) == <<>>

HeuristicModel(utts) ==
  [chief_complaint |-> extract_chief_complaint(utts),
   symptoms |-> extract_symptoms(utts),
   medications |-> extract_medications(utts),
   allergies |-> extract_allergies(utts),
   past_medical_history |-> <<>>,
   family_history |-> <<>>,
   social_history |-> <<>>,
   red_flags |-> <<>>,
   patient_goals |-> extract_patient_goals(utts),
   other_notes |-> None]

(***************************************************************************)
(* Parsed JSON values, and the pydantic schema of app/intake/schema.py.    *)
(***************************************************************************)
JNull == [t |-> "null", v |-> <<>>]
JStr(s) == [t |-> "str", v |-> s]
JNum == [t |-> "num", v |-> <<>>]
JList(l) == [t |-> "list", v |-> l]
JObj(f) == [t |-> "obj", v |-> f]

Has(o, k) == k \in DOMAIN o

\* a field declared `str`: required
ReqStrValid(o, k) == Has(o, k) /\ o[k].t = "str"
\* a field declared `Optional[str] = None`
OptStrValid(o, k) == ~Has(o, k) \/ o[k].t \in {"null", "str"}
OptStrOf(o, k) == IF Has(o, k) /\ o[k].t = "str" THEN Some(o[k].v) ELSE None
\* a field declared `List[str] = Field(default_factory=list)`
StrListValid(o, k) ==
  ~Has(o, k) \/ (o[k].t = "list" /\ \A i \in DOMAIN o[k].v : o[k].v[i].t = "str")
StrListOf(o, k) ==
  IF Has(o, k) THEN [i \in DOMAIN o[k].v |-> o[k].v[i].v] ELSE <<>>
SymptomOptFields ==
  {"onset", "duration", "location", "character", "severity",
   "aggravating_factors", "relieving_factors"}

SymptomValid(j) ==
  /\ j.t = "obj"
  /\ ReqStrValid(j.v, "name")
  /\ \A k \in SymptomOptFields : OptStrValid(j.v, k)
  /\ StrListValid(j.v, "associated_symptoms")
  /\ StrListValid(j.v, "red_flags")

SymptomOf(j) ==
  [name |-> j.v["name"].v,
   onset |-> OptStrOf(j.v, "onset"),
   duration |-> OptStrOf(j.v, "duration"),
   location |-> OptStrOf(j.v, "location"),
   character |-> OptStrOf(j.v, "character"),
   severity |-> OptStrOf(j.v, "severity"),
   aggravating_factors |-> OptStrOf(j.v, "aggravating_factors"),
   relieving_factors |-> OptStrOf(j.v, "relieving_factors"),
   associated_symptoms |-> StrListOf(j.v, "associated_symptoms"),
   red_flags |-> StrListOf(j.v, "red_flags")]

\* a field declared `List[Symptom] = Field(default_factory=list)`
SymptomListValid(o, k) ==
  ~Has(o, k) \/ (o[k].t = "list" /\ \A i \in DOMAIN o[k].v : SymptomValid(o[k].v[i]))
SymptomListOf(o, k) ==
  IF Has(o, k) THEN [i \in DOMAIN o[k].v |-> SymptomOf(o[k].v[i])] ELSE <<>>

MedicationValid(j) ==
  /\ j.t = "obj"
  /\ ReqStrValid(j.v, "name")
  /\ \A k \in {"dose", "frequency", "route", "indication"} : OptStrValid(j.v, k)

MedicationOf(j) ==
  [name |-> j.v["name"].v,
   dose |-> OptStrOf(j.v, "dose"),
   frequency |-> OptStrOf(j.v, "frequency"),
   route |-> OptStrOf(j.v, "route"),
   indication |-> OptStrOf(j.v, "indication")]

\* a field declared `List[Medication] = Field(default_factory=list)`
MedicationListValid(o, k) ==
  ~Has(o, k) \/ (o[k].t = "list" /\ \A i \in DOMAIN o[k].v : MedicationValid(o[k].v[i]))
MedicationListOf(o, k) ==
  IF Has(o, k) THEN [i \in DOMAIN o[k].v |-> MedicationOf(o[k].v[i])] ELSE <<>>

AllergyValid(j) ==
  /\ j.t = "obj"
  /\ ReqStrValid(j.v, "substance")
  /\ \A k \in {"reaction", "severity"} : OptStrValid(j.v, k)

AllergyOf(j) ==
  [substance |-> j.v["substance"].v,
   reaction |-> OptStrOf(j.v, "reaction"),
   severity |-> OptStrOf(j.v, "severity")]

\* a field declared `List[Allergy] = Field(default_factory=list)`
AllergyListValid(o, k) ==
  ~Has(o, k) \/ (o[k].t = "list" /\ \A i \in DOMAIN o[k].v : AllergyValid(o[k].v[i]))
AllergyListOf(o, k) ==
  IF Has(o, k) THEN [i \in DOMAIN o[k].v |-> AllergyOf(o[k].v[i])] ELSE <<>>

StructuredIntakeValid(j) ==
  /\ j.t = "obj"
  /\ OptStrValid(j.v, "chief_complaint")
  /\ SymptomListValid(j.v, "symptoms")
  /\ MedicationListValid(j.v, "medications")
  /\ AllergyListValid(j.v, "allergies")
  /\ StrListValid(j.v, "past_medical_history")
  /\ StrListValid(j.v, "family_history")
  /\ StrListValid(j.v, "social_history")
  /\ StrListValid(j.v, "red_flags")
  /\ OptStrValid(j.v, "patient_goals")
  /\ OptStrValid(j.v, "other_notes")

\* keys outside the schema are ignored (model_config extra = "ignore")
StructuredIntakeOf(j) ==
  [chief_complaint |-> OptStrOf(j.v, "chief_complaint"),
   symptoms |-> SymptomListOf(j.v, "symptoms"),
   medications |-> MedicationListOf(j.v, "medications"),
   allergies |-> AllergyListOf(j.v, "allergies"),
   past_medical_history |-> StrListOf(j.v, "past_medical_history"),
   family_history |-> StrListOf(j.v, "family_history"),
   social_history |-> StrListOf(j.v, "social_history"),
   red_flags |-> StrListOf(j.v, "red_flags"),
   patient_goals |-> OptStrOf(j.v, "patient_goals"),
   other_notes |-> OptStrOf(j.v, "other_notes")]

\* StructuredIntakeModel.model_validate: the model, or a ValidationError
model_validate(j) ==
  IF StructuredIntakeValid(j)
  THEN [ok |-> TRUE, model |-> StructuredIntakeOf(j)]
  ELSE [ok |-> FALSE, model |-> <<>>]

(***************************************************************************)
(* StructuredIntakeModel.model_dump: the dict stored in the JSONB column.  *)
(***************************************************************************)
DumpOpt(o) == IF o = None THEN JNull ELSE JStr(o[1])
DumpStrList(l) == JList([i \in DOMAIN l |-> JStr(l[i])])

DumpSymptom(s) ==
  JObj([name |-> JStr(s.name),
        onset |-> DumpOpt(s.onset),
        duration |-> DumpOpt(s.duration),
        location |-> DumpOpt(s.location),
        character |-> DumpOpt(s.character),
        severity |-> DumpOpt(s.severity),
        aggravating_factors |-> DumpOpt(s.aggravating_factors),
        relieving_factors |-> DumpOpt(s.relieving_factors),
        associated_symptoms |-> DumpStrList(s.associated_symptoms),
        red_flags |-> DumpStrList(s.red_flags)])

DumpMedication(m) ==
  JObj([name |-> JStr(m.name),
        dose |-> DumpOpt(m.dose),
        frequency |-> DumpOpt(m.frequency),
        route |-> DumpOpt(m.route),
        indication |-> DumpOpt(m.indication)])

DumpAllergy(a) ==
  JObj([substance |-> JStr(a.substance),
        reaction |-> DumpOpt(a.reaction),
        severity |-> DumpOpt(a.severity)])

model_dump(m) ==
  JObj([chief_complaint |-> DumpOpt(m.chief_complaint),
        symptoms |-> JList([i \in DOMAIN m.symptoms |-> DumpSymptom(m.symptoms[i])]),
        medications |->
          JList([i \in DOMAIN m.medications |-> DumpMedication(m.medications[i])]),
        allergies |->
          JList([i \in DOMAIN m.allergies |-> DumpAllergy(m.allergies[i])]),
        past_medical_history |-> DumpStrList(m.past_medical_history),
        family_history |-> DumpStrList(m.family_history),
        social_history |-> DumpStrList(m.social_history),
        red_flags |-> DumpStrList(m.red_flags),
        patient_goals |-> DumpOpt(m.patient_goals),
        other_notes |-> DumpOpt(m.other_notes)])

(***************************************************************************)
(* The language-model response as text: a sequence of tokens [k, v] with   *)
(* k in ws (whitespace), tick (one backtick), word (letters, v the word),  *)
(* json (the text of one JSON value, v the value), junk (anything else).   *)
(***************************************************************************)
TWs == [k |-> "ws", v |-> <<>>]
TTick == [k |-> "tick", v |-> <<>>]
TWord(w) == [k |-> "word", v |-> w]
TJson(j) == [k |-> "json", v |-> j]
TJunk == [k |-> "junk", v |-> <<>>]

RECURSIVE LStripTok(_, _)
LStripTok(text, kind) ==
  IF text # <<>> /\ Head(text).k = kind THEN LStripTok(Tail(text), kind) ELSE text

RECURSIVE RStripTok(_, _)
RStripTok(text, kind) ==
  IF text # <<>> /\ text[Len(text)].k = kind
  THEN RStripTok(SubSeq(text, 1, Len(text) - 1), kind)
  ELSE text

StripTok(text, kind) == RStripTok(LStripTok(text, kind), kind)

\* text.startswith("```")
StartsWithFence(text) ==
  Len(text) >= 3 /\ \A i \in 1..3 : text[i].k = "tick"

\* text.lower().startswith("json")
StartsWithJsonWord(text) ==
  text # <<>> /\ Head(text).k = "word" /\ Head(text).v \in {"json", "JSON", "Json"}

\* json.loads: one JSON value with optional whitespace around it, else a
\* JSONDecodeError
json_loads(text) ==
  LET body == StripTok(text, "ws")
  IN IF Len(body) = 1 /\ body[1].k = "json"
     THEN [ok |-> TRUE, value |-> body[1].v]
     ELSE [ok |-> FALSE, value |-> JNull]

clean_json_from_llm(raw) ==
  LET text == StripTok(raw, "ws")
      unfenced ==
        IF StartsWithFence(text)
        THEN LET a == LStripTok(text, "tick")
                 b == IF StartsWithJsonWord(a) THEN Tail(a) ELSE a
             IN StripTok(RStripTok(b, "tick"), "ws")
        ELSE text
  IN json_loads(unfenced)

(***************************************************************************)
(* The language-model outcomes the model draws from.  class is what the    *)
(* outcome is: the call raised, its text is not JSON, its JSON does not    *)
(* fit the schema, or it is a valid record.                                *)
(***************************************************************************)
ValidIntakeJson ==
  JObj([chief_complaint |-> JStr(<<"c">>),
        medications |-> JList(<<JObj([name |-> JStr(<<"m">>), dose |-> JNull])>>),
        patient_goals |-> JNull,
        confidence |-> JNum])

ScalarForListJson ==
  JObj([chief_complaint |-> JStr(<<"c">>), medications |-> JStr(<<"m">>)])

NamelessSymptomJson ==
  JObj([symptoms |-> JList(<<JObj([onset |-> JStr(<<"o">>)])>>)])

LLMResponses ==
  { [class |-> "raise", kind |-> "raise", raw |-> <<>>],
    [class |-> "not_json", kind |-> "text", raw |-> <<TJunk>>],
    [class |-> "schema_mismatch", kind |-> "text",
     raw |-> <<TJson(ScalarForListJson)>>],
    [class |-> "schema_mismatch", kind |-> "text",
     raw |-> <<TJson(NamelessSymptomJson)>>],
    [class |-> "valid", kind |-> "text",
     raw |-> <<TTick, TTick, TTick, TWord("json"), TWs, TJson(ValidIntakeJson),
               TWs, TTick, TTick, TTick>>],
    [class |-> "valid", kind |-> "text", raw |-> <<TWs, TJson(ValidIntakeJson)>>] }

(***************************************************************************)
(* The chunker of app/rag/indexer.py.  A chunk is [source_type, text].     *)
(***************************************************************************)
RECURSIVE Join(_, _)
Join(parts, sep) ==
  IF parts = <<>> THEN <<>>
  ELSE IF Len(parts) = 1 THEN parts[1]
  ELSE parts[1] \o sep \o Join(Tail(parts), sep)

\* parts.append(f"{label}{o}") under `if o:`
OptPart(label, o) == IF Truthy(o) THEN <<<<label>> \o o[1]>> ELSE <<>>
\* parts.append(f"{label}{', '.join(l)}") under `if l:`
ListPart(label, l) == IF l # <<>> THEN <<<<label>> \o Join(l, <<", ">>)>> ELSE <<>>

SymptomStr(s) ==
  Join(<<<<"name: ">> \o s.name>>
         \o OptPart("onset: ", s.onset)
         \o OptPart("duration: ", s.duration)
         \o OptPart("location: ", s.location)
         \o OptPart("character: ", s.character)
         \o OptPart("severity: ", s.severity)
         \o ListPart("associated: ", s.associated_symptoms)
         \o ListPart("red_flags: ", s.red_flags),
       <<"; ">>)

\* parts.append(o) under `if o:`
BarePart(o) == IF Truthy(o) THEN <<o[1]>> ELSE <<>>

MedicationStr(m) ==
  Join(<<m.name>> \o BarePart(m.dose) \o BarePart(m.frequency), <<", ">>)

AllergyStr(a) ==
  Join(<<a.substance>> \o OptPart("reaction: ", a.reaction), <<", ">>)

StructuredChunk(text) == [source_type |-> "structured", text |-> text]

\* a variant under `if structured.<field> is not None:`
OptChunkNotNone(label, o) ==
  IF o # None THEN <<StructuredChunk(<<label>> \o o[1])>> ELSE <<>>

\* one chunk of an Optional[str] field, under `if structured.<field>:`
OptChunk(label, o) ==
  IF Truthy(o) THEN <<StructuredChunk(<<label>> \o o[1])>> ELSE <<>>

\* one chunk of a list field, under `if structured.<field>:`
ListChunk(label, strs, sep) ==
  IF strs # <<>> THEN <<StructuredChunk(<<label>> \o Join(strs, sep))>> ELSE <<>>

\* structured is None (<<>>) or the one validated model (<<model>>)
build_chunks_from_structured(structured) ==
  IF structured = <<>> THEN <<>>
  ELSE LET m == structured[1]
       IN OptChunk("Chief complaint: ", m.chief_complaint)
          \o ListChunk("Symptoms: ",
                       [i \in DOMAIN m.symptoms |-> SymptomStr(m.symptoms[i])],
                       <<" | ">>)
          \o ListChunk("Medications: ",
                       [i \in DOMAIN m.medications |-> MedicationStr(m.medications[i])],
                       <<"; ">>)
          \o ListChunk("Allergies: ",
                       [i \in DOMAIN m.allergies |-> AllergyStr(m.allergies[i])],
                       <<"; ">>)
          \o ListChunk("Past medical history: ", m.past_medical_history, <<"; ">>)
          \o ListChunk("Family history: ", m.family_history, <<"; ">>)
          \o ListChunk("Social history: ", m.social_history, <<"; ">>)
          \o ListChunk("Red flags: ", m.red_flags, <<"; ">>)
          \o OptChunk("Patient goals: ", m.patient_goals)
          \o OptChunk("Other notes: ", m.other_notes)

\* the loop of _build_chunks_from_utterances: qas so far, current_question
RECURSIVE QAsLoop(_, _, _)
QAsLoop(utts, qas, current_question) ==
  IF utts = <<>> THEN qas
  ELSE LET u == Head(utts)
       IN IF u.speaker = "assistant"
          THEN QAsLoop(Tail(utts), qas, Some(u.text))
          ELSE IF Truthy(current_question)
          THEN QAsLoop(Tail(utts),
                       Append(qas, <<"Q: ">> \o current_question[1] \o <<" A: ">> \o u.text),
                       current_question)
          ELSE QAsLoop(Tail(utts), Append(qas, <<"A: ">> \o u.text), current_question)

\* a variant without `if qas:`
build_chunks_from_utterances_unguarded(utts) ==
  <<[source_type |-> "utterance",
     text |-> <<"Conversation QA pairs: ">>
                \o Join(QAsLoop(utts, <<>>, None), <<" | ">>)]>>

build_chunks_from_utterances(utts) ==
  LET qas == QAsLoop(utts, <<>>, None)
  IN IF qas # <<>>
     THEN <<[source_type |-> "utterance",
             text |-> <<"Conversation QA pairs: ">> \o Join(qas, <<" | ">>)]>>
     ELSE <<>>

(***************************************************************************)
(* EmbeddingClient.  The encoder is external: a text's vector is any       *)
(* normalized vector of the model's native width.                          *)
(***************************************************************************)
embedding_dim == 2

UnitVectors == {<<1, 0>>, <<-1, 0>>}

\* an embed without the check of the width
embed_unchecked(texts) ==
  IF texts = <<>> THEN {[ok |-> TRUE, vectors |-> <<>>]}
  ELSE {[ok |-> TRUE, vectors |-> v] : v \in [1..Len(texts) -> UnitVectors]}

\* the outcomes of embed(texts): the vectors, or the dimension mismatch
embed(texts) ==
  IF texts = <<>> THEN {[ok |-> TRUE, vectors |-> <<>>]}
  ELSE IF native_dim # embedding_dim THEN {[ok |-> FALSE, vectors |-> <<>>]}
  ELSE {[ok |-> TRUE, vectors |-> v] : v \in [1..Len(texts) -> UnitVectors]}

\* pgvector's <-> is the Euclidean distance; its square orders rows the same
RECURSIVE SquaredDistance(_, _)
SquaredDistance(a, b) ==
  IF a = <<>> THEN 0
  ELSE (Head(a) - Head(b)) * (Head(a) - Head(b)) + SquaredDistance(Tail(a), Tail(b))

(***************************************************************************)
(* The tables.                                                             *)
(***************************************************************************)
\* session.get(Encounter, encounter_id), session.get(Patient, patient_id)
EncounterRows(encounter_id) == {e \in encounters : e.id = encounter_id}
PatientRows(patient_id) == {p \in patients : p.id = patient_id}

\* session.get(StructuredIntake, encounter_id): the indices of its rows
StructuredRows(table, encounter_id) ==
  {i \in DOMAIN table : table[i].encounter_id = encounter_id}

\* an insert that never looks for the encounter's row
UpsertAlwaysAdd(table, encounter_id, data) ==
  Append(table, [encounter_id |-> encounter_id, data |-> data])

\* the upsert: existing.data = data, or session.add of a new row
Upsert(table, encounter_id, data) ==
  IF StructuredRows(table, encounter_id) = {}
  THEN Append(table, [encounter_id |-> encounter_id, data |-> data])
  ELSE [i \in DOMAIN table |->
          IF table[i].encounter_id = encounter_id
          THEN [table[i] EXCEPT !.data = data]
          ELSE table[i]]

(***************************************************************************)
(* app/intake/summarizer.py.  A call yields its status (ok, or the         *)
(* ValueError not_found), the model it returns and the table it commits.   *)
(***************************************************************************)
\* a heuristic builder without the encounter check
build_structured_intake_for_encounter_unchecked(encounter_id) ==
  LET intake_model == HeuristicModel(load_utterances_for_encounter(encounter_id))
  IN [status |-> "ok", result |-> intake_model,
      table |-> Upsert(structured_intake, encounter_id, model_dump(intake_model))]

build_structured_intake_for_encounter(encounter_id) ==
  IF EncounterRows(encounter_id) = {}
  THEN [status |-> "not_found", result |-> <<>>, table |-> structured_intake]
  ELSE LET intake_model == HeuristicModel(load_utterances_for_encounter(encounter_id))
       IN [status |-> "ok", result |-> intake_model,
           table |-> Upsert(structured_intake, encounter_id, model_dump(intake_model))]

\* the try block up to model_validate: the validated model, or an exception
LLMStage(encounter_id, resp) ==
  IF EncounterRows(encounter_id) = {} THEN [ok |-> FALSE, model |-> <<>>]
  ELSE IF resp.kind = "raise" THEN [ok |-> FALSE, model |-> <<>>]
  ELSE LET parsed == clean_json_from_llm(resp.raw)
       IN IF ~parsed.ok THEN [ok |-> FALSE, model |-> <<>>]
          ELSE model_validate(parsed.value)

\* a builder without the except branch: a stage-1 failure reaches the caller
build_structured_intake_with_llm_no_fallback(encounter_id, resp) ==
  LET stage == LLMStage(encounter_id, resp)
  IN IF stage.ok
     THEN [status |-> "ok", result |-> stage.model, fallback |-> FALSE,
           table |-> Upsert(structured_intake, encounter_id, model_dump(stage.model))]
     ELSE [status |-> IF EncounterRows(encounter_id) = {} THEN "not_found" ELSE "error",
           result |-> <<>>, fallback |-> FALSE, table |-> structured_intake]

\* a builder whose fallback returns the heuristic record without storing it
build_structured_intake_with_llm_unsaved_fallback(encounter_id, resp) ==
  LET stage == LLMStage(encounter_id, resp)
  IN IF stage.ok
     THEN [status |-> "ok", result |-> stage.model, fallback |-> FALSE,
           table |-> Upsert(structured_intake, encounter_id, model_dump(stage.model))]
     ELSE LET h == build_structured_intake_for_encounter(encounter_id)
          IN [status |-> h.status, result |-> h.result, fallback |-> TRUE,
              table |-> structured_intake]

build_structured_intake_with_llm(encounter_id, resp) ==
  LET stage == LLMStage(encounter_id, resp)
  IN IF stage.ok
     THEN [status |-> "ok", result |-> stage.model, fallback |-> FALSE,
           table |-> Upsert(structured_intake, encounter_id, model_dump(stage.model))]
     ELSE LET h == build_structured_intake_for_encounter(encounter_id)
          IN [status |-> h.status, result |-> h.result, fallback |-> TRUE,
              table |-> h.table]

(***************************************************************************)
(* app/rag/indexer.py.                                                     *)
(***************************************************************************)
\* not_found, a ValidationError of the stored data, or what was loaded
load_encounter_with_structured(encounter_id) ==
  IF EncounterRows(encounter_id) = {}
  THEN [status |-> "not_found"]
  ELSE LET enc == CHOOSE e \in EncounterRows(encounter_id) : TRUE
           rows == StructuredRows(structured_intake, encounter_id)
           validated == {model_validate(structured_intake[i].data) : i \in rows}
       IN IF PatientRows(enc.patient_id) = {} THEN [status |-> "not_found"]
          ELSE IF \E v \in validated : ~v.ok THEN [status |-> "error"]
          ELSE [status |-> "ok",
                patient_id |-> enc.patient_id,
                structured_model |->
                  IF rows = {} THEN <<>>
                  ELSE <<(CHOOSE v \in validated : TRUE).model>>,
                utts |-> load_utterances_for_encounter(encounter_id)]

\* chunks of the run: the structured chunks, then the utterance chunk
EncounterChunks(loaded) ==
  build_chunks_from_structured(loaded.structured_model)
    \o build_chunks_from_utterances(loaded.utts)

\* rows with the two identifiers in each other's column
NewChunkRowsSwapped(table, patient_id, encounter_id, chunks, embeddings) ==
  [i \in 1..Len(chunks) |->
     [id |-> Len(table) + i,
      patient_id |-> encounter_id,
      encounter_id |-> patient_id,
      source_type |-> chunks[i].source_type,
      text |-> chunks[i].text,
      embedding |-> embeddings[i]]]

\* the PatientChunk rows of one run, ids from the table's sequence
NewChunkRows(table, patient_id, encounter_id, chunks, embeddings) ==
  [i \in 1..Len(chunks) |->
     [id |-> Len(table) + i,
      patient_id |-> patient_id,
      encounter_id |-> encounter_id,
      source_type |-> chunks[i].source_type,
      text |-> chunks[i].text,
      embedding |-> embeddings[i]]]

\* an indexer that returns 0 where the encounter or patient is not found
index_encounter_for_rag_zero_on_missing(encounter_id) ==
  LET loaded == load_encounter_with_structured(encounter_id)
  IN IF loaded.status = "not_found"
     THEN {[status |-> "ok", inserted |-> 0, table |-> patient_chunks]}
     ELSE IF loaded.status # "ok"
     THEN {[status |-> loaded.status, inserted |-> 0, table |-> patient_chunks]}
     ELSE LET chunks == EncounterChunks(loaded)
          IN IF chunks = <<>>
             THEN {[status |-> "ok", inserted |-> 0, table |-> patient_chunks]}
             ELSE {IF emb.ok
                   THEN [status |-> "ok", inserted |-> Len(chunks),
                         table |-> patient_chunks \o
                                   NewChunkRows(patient_chunks, loaded.patient_id,
                                                encounter_id, chunks, emb.vectors)]
                   ELSE [status |-> "error", inserted |-> 0, table |-> patient_chunks]
                   : emb \in embed([i \in DOMAIN chunks |-> chunks[i].text])}

\* the outcomes of index_encounter_for_rag: status, count, committed table
index_encounter_for_rag(encounter_id) ==
  LET loaded == load_encounter_with_structured(encounter_id)
  IN IF loaded.status # "ok"
     THEN {[status |-> loaded.status, inserted |-> 0, table |-> patient_chunks]}
     ELSE LET chunks == EncounterChunks(loaded)
          IN IF chunks = <<>>
             THEN {[status |-> "ok", inserted |-> 0, table |-> patient_chunks]}
             ELSE {IF emb.ok
                   THEN [status |-> "ok", inserted |-> Len(chunks),
                         table |-> patient_chunks \o
                                   NewChunkRows(patient_chunks, loaded.patient_id,
                                                encounter_id, chunks, emb.vectors)]
                   ELSE [status |-> "error", inserted |-> 0, table |-> patient_chunks]
                   : emb \in embed([i \in DOMAIN chunks |-> chunks[i].text])}

(***************************************************************************)
(* app/rag/retriever.py: WHERE patient_id, ORDER BY distance, LIMIT k.     *)
(***************************************************************************)
\* a query without the WHERE clause
SelectRowsUnfiltered(table, patient_id) == DOMAIN table

\* WHERE patient_id = :patient_id
SelectRows(table, patient_id) ==
  {i \in DOMAIN table : table[i].patient_id = patient_id}

\* ORDER BY embedding <-> :query_embedding; rows at one distance in any order
OrderedRows(table, rows, query_emb) ==
  {o \in [1..Cardinality(rows) -> rows] :
     /\ \A a, b \in DOMAIN o : a # b => o[a] # o[b]
     /\ \A a, b \in DOMAIN o :
          a < b => SquaredDistance(table[o[a]].embedding, query_emb)
                     <= SquaredDistance(table[o[b]].embedding, query_emb)}

\* a LIMIT that lets one row too many through
LimitOffByOne(o, k) == SubSeq(o, 1, IF k + 1 < Len(o) THEN k + 1 ELSE Len(o))

\* LIMIT :k
Limit(o, k) == SubSeq(o, 1, IF k < Len(o) THEN k ELSE Len(o))

\* a query that ranks and limits over every patient's rows, and filters after
QueryRowsFilterAfter(table, patient_id, query_emb, k) ==
  {SelectSeq(Limit(o, k), LAMBDA i : table[i].patient_id = patient_id)
   : o \in OrderedRows(table, DOMAIN table, query_emb)}

\* the statement: filter, order, limit
QueryRows(table, patient_id, query_emb, k) ==
  {Limit(o, k) : o \in OrderedRows(table, SelectRows(table, patient_id), query_emb)}

RetrievedChunk(row, query_emb) ==
  [id |-> row.id,
   encounter_id |-> row.encounter_id,
   source_type |-> row.source_type,
   text |-> row.text,
   score |-> SquaredDistance(row.embedding, query_emb)]

\* the outcomes of retrieve_patient_chunks: the chunks (with the query's
\* embedding they were ranked by), or embed's error
retrieve_patient_chunks(patient_id, query, k) ==
  UNION {IF emb.ok
         THEN {[status |-> "ok", query_emb |-> emb.vectors[1],
                chunks |-> [i \in DOMAIN o |->
                              RetrievedChunk(patient_chunks[o[i]], emb.vectors[1])]]
               : o \in QueryRows(patient_chunks, patient_id, emb.vectors[1], k)}
         ELSE {[status |-> "error", query_emb |-> <<>>, chunks |-> <<>>]}
         : emb \in embed(<<query>>)}

(***************************************************************************)
(* app/rag/qa.py.                                                          *)
(***************************************************************************)
NoInformation ==
  <<"I couldn't find any information about that in this patient's records.">>

\* ref = f"[chunk {i}, encounter={c.encounter_id}, source={c.source_type}]"
ContextRef(i, c) ==
  <<"[chunk ", ToString(i), ", encounter=", c.encounter_id, ", source=",
    c.source_type, "]">>

\* the list `lines` under enumerate(chunks) without start=1
ContextLinesZeroBased(chunks) ==
  [i \in DOMAIN chunks |-> ContextRef(i - 1, chunks[i]) \o <<" ">> \o chunks[i].text]

\* the list `lines`: f"{ref} {c.text}" for each chunk, numbered from 1
ContextLines(chunks) ==
  [i \in DOMAIN chunks |-> ContextRef(i, chunks[i]) \o <<" ">> \o chunks[i].text]

\* "\n".join(lines)
build_context(chunks) == Join(ContextLines(chunks), <<"\n">>)

\* what llm_client.chat does when called: raises, or returns a text
ChatOutcomes ==
  {[kind |-> "raise", text |-> <<>>], [kind |-> "text", text |-> <<"answer [chunk 1]">>]}

\* a version without the early return on no chunks
answer_doctor_question_always_chat(patient_id, question, chat, k) ==
  {IF r.status # "ok"
   THEN [status |-> "error", answer |-> <<>>, chunks |-> <<>>, chat_calls |-> 0,
         context |-> <<>>, retrieved |-> r]
   ELSE IF chat.kind = "raise"
   THEN [status |-> "error", answer |-> <<>>, chunks |-> <<>>, chat_calls |-> 1,
         context |-> build_context(r.chunks), retrieved |-> r]
   ELSE [status |-> "ok", answer |-> chat.text, chunks |-> r.chunks,
         chat_calls |-> 1, context |-> build_context(r.chunks), retrieved |-> r]
   : r \in retrieve_patient_chunks(patient_id, question, k)}

\* a variant that returns the retrieved chunks in the reverse order
answer_doctor_question_reversed(patient_id, question, chat, k) ==
  {IF r.status # "ok"
   THEN [status |-> "error", answer |-> <<>>, chunks |-> <<>>, chat_calls |-> 0,
         context |-> <<>>, retrieved |-> r]
   ELSE IF r.chunks = <<>>
   THEN [status |-> "ok", answer |-> NoInformation, chunks |-> <<>>,
         chat_calls |-> 0, context |-> <<>>, retrieved |-> r]
   ELSE IF chat.kind = "raise"
   THEN [status |-> "error", answer |-> <<>>, chunks |-> <<>>, chat_calls |-> 1,
         context |-> build_context(r.chunks), retrieved |-> r]
   ELSE [status |-> "ok", answer |-> chat.text,
         chunks |-> [i \in 1..Len(r.chunks) |-> r.chunks[Len(r.chunks) + 1 - i]],
         chat_calls |-> 1, context |-> build_context(r.chunks), retrieved |-> r]
   : r \in retrieve_patient_chunks(patient_id, question, k)}

\* the outcomes of answer_doctor_question under one outcome of chat; retrieved
\* is what its retrieval returned, chat_calls the calls of llm_client.chat
answer_doctor_question(patient_id, question, chat, k) ==
  {IF r.status # "ok"
   THEN [status |-> "error", answer |-> <<>>, chunks |-> <<>>, chat_calls |-> 0,
         context |-> <<>>, retrieved |-> r]
   ELSE IF r.chunks = <<>>
   THEN [status |-> "ok", answer |-> NoInformation, chunks |-> <<>>,
         chat_calls |-> 0, context |-> <<>>, retrieved |-> r]
   ELSE IF chat.kind = "raise"
   THEN [status |-> "error", answer |-> <<>>, chunks |-> <<>>, chat_calls |-> 1,
         context |-> build_context(r.chunks), retrieved |-> r]
   ELSE [status |-> "ok", answer |-> chat.text, chunks |-> r.chunks,
         chat_calls |-> 1, context |-> build_context(r.chunks), retrieved |-> r]
   : r \in retrieve_patient_chunks(patient_id, question, k)}

(***************************************************************************)
(* The operations that write the tables, as actions.  out is the outcome   *)
(* of the last call, and returned[e] the model the last completed build    *)
(* for encounter e returned (None before the first).  The two read-only    *)
(* operations, retrieve_patient_chunks and answer_doctor_question, are the *)
(* operators above: their outcomes are a function of the tables.           *)
(***************************************************************************)
Speakers == {"patient", "assistant"}
Questions == {<<"q">>}
CallEncounterIds == EncounterIds \cup {NoEncounter}
CallPatientIds == PatientIds \cup {NoPatient}

BuildWithLLM ==
  \E encounter_id \in CallEncounterIds, resp \in LLMResponses :
    LET r == build_structured_intake_with_llm(encounter_id, resp)
    IN /\ structured_intake' = r.table
       /\ returned' = IF r.status = "ok"
                      THEN [returned EXCEPT ![encounter_id] = Some(r.result)]
                      ELSE returned
       /\ out' = [op |-> "build_structured_intake_with_llm",
                  encounter_id |-> encounter_id, llm |-> resp.class,
                  fallback |-> r.fallback, status |-> r.status, result |-> r.result]
       /\ UNCHANGED <<session_states, patients, encounters, utterances, patient_chunks, native_dim,
                      requests>>

BuildHeuristic ==
  \E encounter_id \in CallEncounterIds :
    LET r == build_structured_intake_for_encounter(encounter_id)
    IN /\ structured_intake' = r.table
       /\ returned' = IF r.status = "ok"
                      THEN [returned EXCEPT ![encounter_id] = Some(r.result)]
                      ELSE returned
       /\ out' = [op |-> "build_structured_intake_for_encounter",
                  encounter_id |-> encounter_id,
                  status |-> r.status, result |-> r.result]
       /\ UNCHANGED <<session_states, patients, encounters, utterances, patient_chunks, native_dim,
                      requests>>

IndexEncounter ==
  \E encounter_id \in CallEncounterIds :
    \E r \in index_encounter_for_rag(encounter_id) :
      /\ Len(r.table) <= MaxChunks
      /\ patient_chunks' = r.table
      /\ out' = [op |-> "index_encounter_for_rag", encounter_id |-> encounter_id,
                 status |-> r.status, inserted |-> r.inserted]
      /\ UNCHANGED <<session_states, patients, encounters, utterances, structured_intake,
                     native_dim, returned, requests>>

(***************************************************************************)
(* IntakeAgent of app/intake/agent.py.  An IntakeState is the record       *)
(* [stage, turns, stage_question_count, is_complete]; a turn is            *)
(* [role, content].                                                        *)
(***************************************************************************)
\* the enum of app/intake/stages.py: member name and value
IntakeStage ==
  [CHIEF_COMPLAINT |-> "chief_complaint", SYMPTOM_DETAILS |-> "symptom_details",
   SAFETY_CHECKS |-> "safety_checks", HISTORY |-> "history", WRAP_UP |-> "wrap_up",
   DONE |-> "done"]

MAX_QUESTIONS_PER_STAGE ==
  [chief_complaint |-> 1, symptom_details |-> 3, safety_checks |-> 2,
   history |-> 3, wrap_up |-> 1]

QUESTIONS ==
  [chief_complaint |->
     << <<"To start, can you tell me in your own words what brings you in today?">> >>,
   symptom_details |->
     << <<"When did this problem first start?">>,
        <<"Has it been getting better, worse, or staying the same?">>,
        <<"Can you describe where in your body you notice it most?">>,
        <<"On a scale from 0 to 10, how bad is it at its worst?">>,
        <<"Is there anything that makes it better or worse?">> >>,
   safety_checks |->
     << <<"Have you noticed any alarming or sudden changes, like chest pain, trouble breathing, or feeling faint?">>,
        <<"Is there anything about your symptoms that particularly worries you?">> >>,
   history |->
     << <<"Do you have any ongoing medical conditions that a doctor has diagnosed in the past?">>,
        <<"What medications are you currently taking, including over-the-counter or herbal remedies?">>,
        <<"Do you have any allergies to medications, foods, or anything else?">>,
        <<"Is there any important family medical history you think your doctor should know about?">>,
        <<"Could you briefly describe your lifestyle, such as smoking, alcohol, or exercise habits?">> >>,
   wrap_up |->
     << <<"Is there anything else you would like your doctor to know before they review this information?">> >>,
   done |-> <<>>]

\* IntakeState(stage=...) with the defaults of the dataclass
IntakeState(stage) ==
  [stage |-> stage, turns |-> <<>>, stage_question_count |-> 0, is_complete |-> FALSE]

IntakeTurn(role, content) == [role |-> role, content |-> content]

record_patient_turn(state, content) ==
  [state EXCEPT !.turns = Append(@, IntakeTurn("patient", content))]

record_assistant_turn(state, content) ==
  [state EXCEPT !.turns = Append(@, IntakeTurn("assistant", content))]

\* a test that lets one more question through
should_advance_stage_late(state) ==
  state.stage_question_count >
    (IF state.stage \in DOMAIN MAX_QUESTIONS_PER_STAGE
     THEN MAX_QUESTIONS_PER_STAGE[state.stage] ELSE 0)

\* MAX_QUESTIONS_PER_STAGE.get(state.stage, 0) is reached
should_advance_stage(state) ==
  state.stage_question_count >=
    (IF state.stage \in DOMAIN MAX_QUESTIONS_PER_STAGE
     THEN MAX_QUESTIONS_PER_STAGE[state.stage] ELSE 0)

\* a successor that passes over the safety checks
next_stage_skipping(current) ==
  IF current = IntakeStage.CHIEF_COMPLAINT THEN IntakeStage.SYMPTOM_DETAILS
  ELSE IF current = IntakeStage.SYMPTOM_DETAILS THEN IntakeStage.HISTORY
  ELSE IF current = IntakeStage.HISTORY THEN IntakeStage.WRAP_UP
  ELSE IntakeStage.DONE

next_stage(current) ==
  IF current = IntakeStage.CHIEF_COMPLAINT THEN IntakeStage.SYMPTOM_DETAILS
  ELSE IF current = IntakeStage.SYMPTOM_DETAILS THEN IntakeStage.SAFETY_CHECKS
  ELSE IF current = IntakeStage.SAFETY_CHECKS THEN IntakeStage.HISTORY
  ELSE IF current = IntakeStage.HISTORY THEN IntakeStage.WRAP_UP
  ELSE IF current = IntakeStage.WRAP_UP THEN IntakeStage.DONE
  ELSE IntakeStage.DONE

advance_stage(state) ==
  [state EXCEPT !.stage = next_stage(state.stage), !.stage_question_count = 0]

advance_stage_to_done(state) ==
  [state EXCEPT !.stage = IntakeStage.DONE, !.stage_question_count = 0]

\* the next question of the stage, or None
next_question(state) ==
  LET candidates == IF state.stage \in DOMAIN QUESTIONS
                    THEN QUESTIONS[state.stage] ELSE <<>>
      index == state.stage_question_count
  IN IF candidates = <<>> THEN None
     ELSE IF index >= Len(candidates) THEN None
     ELSE Some(candidates[index + 1])

\* IntakeAgent.start: the state and the first question
agent_start ==
  LET state == IntakeState(IntakeStage.CHIEF_COMPLAINT)
      first_question == next_question(state)
  IN IF first_question = None
     THEN [state |-> [state EXCEPT !.is_complete = TRUE],
           question |-> Some(<<"I have no questions to ask at this time.">>)]
     ELSE [state |-> [record_assistant_turn(state, first_question[1])
                        EXCEPT !.stage_question_count = 1],
           question |-> first_question]

\* IntakeAgent.step: the state and the next question, or None
agent_step(state, patient_message) ==
  IF state.is_complete \/ state.stage = IntakeStage.DONE
  THEN [state |-> state, question |-> None]
  ELSE LET recorded == record_patient_turn(state, patient_message)
           staged == IF should_advance_stage(recorded)
                     THEN advance_stage(recorded) ELSE recorded
       IN IF staged.stage = IntakeStage.DONE
          THEN [state |-> [staged EXCEPT !.is_complete = TRUE], question |-> None]
          ELSE LET next_q == next_question(staged)
               IN IF next_q = None
                  THEN [state |-> [advance_stage_to_done(staged)
                                     EXCEPT !.is_complete = TRUE],
                        question |-> None]
                  ELSE [state |-> [record_assistant_turn(staged, next_q[1])
                                     EXCEPT !.stage_question_count = @ + 1],
                        question |-> next_q]

(***************************************************************************)
(* Requests in flight.  A request of the HTTP layer runs in its own worker *)
(* with its own database session; what another session can see changes at *)
(* a commit.  requests[p] is the position of request p: kind is complete   *)
(* (intake_message on the last turn: extract, then index) or index (a call *)
(* of index_encounter_for_rag alone); pc is idle, extracted (the builder   *)
(* committed), loaded (the indexer read its inputs and embedded the        *)
(* chunks), done, or failed; record is the model the builder returned,     *)
(* chunks and embeddings what the indexer holds in memory, written the ids *)
(* of the rows its commit inserted.                                        *)
(***************************************************************************)
Procs == {"r1", "r2"}

IdleRequest ==
  [kind |-> "none", pc |-> "idle", encounter_id |-> "", patient_id |-> "",
   record |-> <<>>, chunks |-> <<>>, embeddings |-> <<>>, written |-> {},
   next_question |-> <<>>, was_complete |-> FALSE]

\* _session_states = {}: no encounter has a session state
NoSessions == [e \in EncounterIds |-> None]

\* routes.py:78: build_structured_intake_with_llm runs to its commit
CompleteExtract(p) ==
  /\ requests[p].pc \in {"idle", "turned"}
  /\ \E encounter_id \in EncounterIds, resp \in LLMResponses :
       LET r == build_structured_intake_with_llm(encounter_id, resp)
       IN /\ requests[p].pc = "turned" => encounter_id = requests[p].encounter_id
          /\ structured_intake' = r.table
          /\ returned' = IF r.status = "ok"
                         THEN [returned EXCEPT ![encounter_id] = Some(r.result)]
                         ELSE returned
          /\ requests' = [requests EXCEPT ![p] =
                            [@ EXCEPT !.kind = IF requests[p].pc = "idle"
                                               THEN "complete" ELSE @,
                                      !.pc = IF r.status = "ok" THEN "extracted"
                                             ELSE "failed",
                                      !.encounter_id = encounter_id,
                                      !.record = IF r.status = "ok"
                                                 THEN Some(r.result) ELSE <<>>]]
  /\ UNCHANGED <<session_states, patients, encounters, utterances, patient_chunks, native_dim, out>>

\* index_encounter_for_rag up to emb_client.embed: the reads and the chunks
IndexLoad(p) ==
  /\ requests[p].pc \in {"idle", "extracted"}
  /\ \E encounter_id \in EncounterIds :
       /\ requests[p].pc = "extracted" => encounter_id = requests[p].encounter_id
       /\ LET loaded == load_encounter_with_structured(encounter_id)
              kind == IF requests[p].pc = "idle" THEN "index" ELSE requests[p].kind
          IN IF loaded.status # "ok"
             THEN requests' = [requests EXCEPT ![p] =
                                 [@ EXCEPT !.kind = kind, !.pc = "failed",
                                           !.encounter_id = encounter_id]]
             ELSE LET chunks == EncounterChunks(loaded)
                  IN IF chunks = <<>>
                     THEN requests' = [requests EXCEPT ![p] =
                                         [@ EXCEPT !.kind = kind, !.pc = "done",
                                                   !.encounter_id = encounter_id,
                                                   !.patient_id = loaded.patient_id]]
                     ELSE \E emb \in embed([i \in DOMAIN chunks |-> chunks[i].text]) :
                            requests' = [requests EXCEPT ![p] =
                              [@ EXCEPT !.kind = kind,
                                        !.pc = IF emb.ok THEN "loaded" ELSE "failed",
                                        !.encounter_id = encounter_id,
                                        !.patient_id = loaded.patient_id,
                                        !.chunks = IF emb.ok THEN chunks ELSE <<>>,
                                        !.embeddings = emb.vectors]]
  /\ UNCHANGED <<session_states, patients, encounters, utterances, structured_intake, patient_chunks,
                 native_dim, returned, out>>

\* a commit that first deletes the chunks the encounter already has
IndexCommitReplacing(p) ==
  /\ requests[p].pc = "loaded"
  /\ LET kept == SelectSeq(patient_chunks,
                           LAMBDA row : row.encounter_id # requests[p].encounter_id)
         rows == NewChunkRows(patient_chunks, requests[p].patient_id,
                              requests[p].encounter_id, requests[p].chunks,
                              requests[p].embeddings)
     IN /\ patient_chunks' = kept \o rows
        /\ requests' = [requests EXCEPT ![p] =
                          [@ EXCEPT !.pc = "done",
                                    !.written = {rows[i].id : i \in DOMAIN rows}]]
  /\ UNCHANGED <<session_states, patients, encounters, utterances, structured_intake, native_dim,
                 returned, out>>

\* index_encounter_for_rag from session.add to session.commit: the rows of
\* the run become visible together
IndexCommit(p) ==
  /\ requests[p].pc = "loaded"
  /\ LET rows == NewChunkRows(patient_chunks, requests[p].patient_id,
                              requests[p].encounter_id, requests[p].chunks,
                              requests[p].embeddings)
     IN /\ patient_chunks' = patient_chunks \o rows
        /\ requests' = [requests EXCEPT ![p] =
                          [@ EXCEPT !.pc = "done",
                                    !.written = {rows[i].id : i \in DOMAIN rows}]]
  /\ UNCHANGED <<session_states, patients, encounters, utterances, structured_intake, native_dim,
                 returned, out>>

(***************************************************************************)
(* IntakeSessionService and the intake routes.  A new row of utterances    *)
(* takes the next id of the table and the time of its insertion; the clock *)
(* advances with every row.  intake_message runs handle_turn to its commit *)
(* (pc turned when the intake is complete), then CompleteExtract,          *)
(* IndexLoad and IndexCommit; a worker whose request has ended (done or    *)
(* failed) takes the next one.                                             *)
(***************************************************************************)
\* the encounters start_intake creates, and the messages patients send
IntakeEncounterIds == {"e1"}
MessageTexts == {<<"m">>}

\* the largest id of the table
LastUtteranceId(table) ==
  IF table = {} THEN 0
  ELSE LET r == CHOOSE r \in table : \A o \in table : o.id <= r.id
       IN r.id

\* session.add(Utterance(encounter_id, speaker, text, ts=datetime.now()))
AddUtterance(table, encounter_id, speaker, text) ==
  table \cup {[id |-> LastUtteranceId(table) + 1, encounter_id |-> encounter_id,
               speaker |-> speaker, text |-> text,
               ts |-> LastUtteranceId(table) + 1]}

\* IntakeSessionService.handle_turn: the state, the next question and the
\* utterances table it commits
handle_turn(state, encounter_id, patient_message) ==
  LET with_patient == AddUtterance(utterances, encounter_id, "patient",
                                   patient_message)
      stepped == agent_step(state, patient_message)
  IN [state |-> stepped.state, next_q |-> stepped.question,
      table |-> IF stepped.question # None
                THEN AddUtterance(with_patient, encounter_id, "assistant",
                                  stepped.question[1])
                ELSE with_patient]

\* _session_states.get(encounter_id)
SessionOf(encounter_id) ==
  IF encounter_id \in EncounterIds THEN session_states[encounter_id] ELSE None

\* the patient's messages stored for the encounter that its state holds no
\* turn for
ExtraMessages(encounter_id) ==
  Cardinality({u \in utterances : u.encounter_id = encounter_id
                                   /\ u.speaker = "patient"})
    - Cardinality({i \in DOMAIN SessionOf(encounter_id)[1].turns :
                     SessionOf(encounter_id)[1].turns[i].role = "patient"})

\* POST /intake/start: start_session creates the patient, the encounter and
\* the first assistant utterance, and the route keeps the state
StartIntake ==
  \E encounter_id \in IntakeEncounterIds :
    LET started == agent_start
    IN /\ encounter_id \notin {e.id : e \in encounters}
       /\ patients' = patients \cup {[id |-> PatientOfEncounter[encounter_id]]}
       /\ encounters' = encounters \cup
                          {[id |-> encounter_id,
                            patient_id |-> PatientOfEncounter[encounter_id]]}
       /\ utterances' = AddUtterance(utterances, encounter_id, "assistant",
                                     started.question[1])
       /\ session_states' = [session_states EXCEPT ![encounter_id] =
                               Some(started.state)]
       /\ out' = [op |-> "start_intake", encounter_id |-> encounter_id,
                  first_question |-> started.question[1],
                  stage |-> started.state.stage]
       /\ UNCHANGED <<structured_intake, patient_chunks, native_dim, returned,
                      requests>>

\* POST /intake/message up to the commit of handle_turn: 404 without a
\* state; otherwise the turn is persisted and the state kept, and the
\* request goes on to extraction and indexing when next_q is None
IntakeMessage(p) ==
  /\ requests[p].pc \in {"idle", "done", "failed"}
  /\ \E encounter_id \in CallEncounterIds, message \in MessageTexts :
       LET state == SessionOf(encounter_id)
       IN IF state = None
          THEN /\ requests' = [requests EXCEPT ![p] =
                                 [IdleRequest EXCEPT !.kind = "message",
                                                     !.pc = "failed",
                                                     !.encounter_id = encounter_id]]
               /\ UNCHANGED <<utterances, session_states>>
          ELSE LET turn == handle_turn(state[1], encounter_id, message)
               IN /\ state[1].is_complete
                       => ExtraMessages(encounter_id) < MaxExtraMessages
                  /\ utterances' = turn.table
                  /\ session_states' = [session_states EXCEPT ![encounter_id] =
                                          Some(turn.state)]
                  /\ requests' = [requests EXCEPT ![p] =
                                    [IdleRequest EXCEPT
                                       !.kind = "message",
                                       !.pc = IF turn.next_q = None
                                              THEN "turned" ELSE "done",
                                       !.encounter_id = encounter_id,
                                       !.next_question = turn.next_q,
                                       !.was_complete = state[1].is_complete]]
  /\ UNCHANGED <<patients, encounters, structured_intake, patient_chunks,
                 native_dim, returned, out>>

(***************************************************************************)
(* Initial states.  The patients and encounters exist (every encounter's   *)
(* patient_id is a foreign key to a patient row); the utterances table is  *)
(* any table within the bounds; nothing is extracted or indexed yet.       *)
(***************************************************************************)
UtteranceTable(n, f) ==
  {[id |-> i, encounter_id |-> f[i].encounter_id, speaker |-> f[i].speaker,
    text |-> f[i].text, ts |-> f[i].ts] : i \in 1..n}

\* tables of up to MaxUtts rows over all encounters, timestamps in id order
StoreTables ==
  UNION {{UtteranceTable(n, [i \in 1..n |->
                               [encounter_id |-> f[i].encounter_id,
                                speaker |-> f[i].speaker,
                                text |-> f[i].text, ts |-> i]])
          : f \in [1..n -> [encounter_id : EncounterIds, speaker : Speakers,
                            text : Texts]]}
         : n \in 0..MaxUtts}

\* one transcript of up to MaxTurns turns, timestamps equal or out of id order
HeuristicTables ==
  UNION {{UtteranceTable(n, f)
          : f \in [1..n -> [encounter_id : {"e1"}, speaker : Speakers,
                            text : HeurTexts, ts : TsValues]]}
         : n \in 0..MaxTurns}

InitTables ==
  /\ patients = {[id |-> p] : p \in PatientIds}
  /\ encounters = {[id |-> e, patient_id |-> PatientOfEncounter[e]] : e \in EncounterIds}
  /\ structured_intake = <<>>
  /\ patient_chunks = <<>>
  /\ native_dim = embedding_dim
  /\ returned = [e \in CallEncounterIds |-> None]
  /\ out = [op |-> "none"]
  /\ requests = [p \in Procs |-> IdleRequest]
  /\ session_states = NoSessions

\* the store: one encounter per patient, each with a transcript
SampleTable ==
  {[id |-> 1, encounter_id |-> "e1", speaker |-> "assistant", text |-> <<"a">>, ts |-> 1],
   [id |-> 2, encounter_id |-> "e1", speaker |-> "patient",
    text |-> <<" ", "b", "\n">>, ts |-> 2],
   [id |-> 3, encounter_id |-> "e2", speaker |-> "patient", text |-> <<"a">>, ts |-> 3]}

Init == InitTables /\ utterances = SampleTable

\* the operations that write the tables
Next == BuildWithLLM \/ BuildHeuristic \/ IndexEncounter

Spec == Init /\ [][Next]_vars

\* the two builders over every utterances table
InitExtract == InitTables /\ utterances \in StoreTables

NextExtract == BuildWithLLM \/ BuildHeuristic

SpecExtract == InitExtract /\ [][NextExtract]_vars

\* requests in flight over the store
NextConcurrent ==
  \E p \in Procs : CompleteExtract(p) \/ IndexLoad(p) \/ IndexCommit(p)

SpecConcurrent == Init /\ [][NextConcurrent]_vars

\* the indexer over every utterances table, with an encoder of the configured
\* width or of another
NativeDims == {embedding_dim, embedding_dim + 1}

InitIndex ==
  /\ patients = {[id |-> p] : p \in PatientIds}
  /\ encounters = {[id |-> e, patient_id |-> PatientOfEncounter[e]] : e \in EncounterIds}
  /\ utterances \in StoreTables
  /\ structured_intake = <<>>
  /\ patient_chunks = <<>>
  /\ native_dim \in NativeDims
  /\ returned = [e \in CallEncounterIds |-> None]
  /\ out = [op |-> "none"]
  /\ requests = [p \in Procs |-> IdleRequest]
  /\ session_states = NoSessions

NextIndex == BuildHeuristic \/ IndexEncounter

SpecIndex == InitIndex /\ [][NextIndex]_vars

\* the intake service from an empty database, its requests handled one at a
\* time
IntakeProcs == {"r1"}

InitIntake ==
  /\ patients = {}
  /\ encounters = {}
  /\ utterances = {}
  /\ structured_intake = <<>>
  /\ patient_chunks = <<>>
  /\ native_dim = embedding_dim
  /\ returned = [e \in CallEncounterIds |-> None]
  /\ out = [op |-> "none"]
  /\ requests = [p \in Procs |-> IdleRequest]
  /\ session_states = NoSessions

NextIntake ==
  \/ StartIntake
  \/ \E p \in IntakeProcs :
       \/ IntakeMessage(p)
       \/ requests[p].pc = "turned" /\ CompleteExtract(p)
       \/ requests[p].pc = "extracted" /\ IndexLoad(p)
       \/ IndexCommit(p)

SpecIntake == InitIntake /\ [][NextIntake]_vars

\* the heuristic builder over every transcript
InitHeuristic == InitTables /\ utterances \in HeuristicTables

NextHeuristic == BuildHeuristic

SpecHeuristic == InitHeuristic /\ [][NextHeuristic]_vars

(***************************************************************************)
(* Retrieval and question answering.  The calls are read-only, so each     *)
(* property speaks of every outcome of every call in a reachable store.    *)
(***************************************************************************)
Ks == 0..MaxK

\* the successful outcomes of retrieve_patient_chunks(patient_id, query, k)
Retrieved(patient_id, query, k) ==
  {r \in retrieve_patient_chunks(patient_id, query, k) : r.status = "ok"}

\* the stored rows of a patient, and the stored rows with a given id
RowsOfPatient(patient_id) ==
  {i \in DOMAIN patient_chunks : patient_chunks[i].patient_id = patient_id}
RowsWithId(id) == {i \in DOMAIN patient_chunks : patient_chunks[i].id = id}

ChunkIds(chunks) == {chunks[i].id : i \in DOMAIN chunks}

\* C1: every chunk retrieve_patient_chunks returns for a patient id is a stored
\* chunk whose patient_id is that id, whatever the query, k and the other
\* patients' chunks.
C1_TenantIsolation ==
  \A patient_id \in CallPatientIds, query \in Questions, k \in Ks :
    \A r \in Retrieved(patient_id, query, k) :
      \A i \in DOMAIN r.chunks :
        /\ RowsWithId(r.chunks[i].id) # {}
        /\ \A j \in RowsWithId(r.chunks[i].id) :
             patient_chunks[j].patient_id = patient_id

\* chunks are returned for pA while pB has a chunk at least as near the query
C1_Witness ==
  \E query \in Questions, k \in Ks :
    \E r \in Retrieved("pA", query, k) :
      /\ r.chunks # <<>>
      /\ \E j \in RowsOfPatient("pB") :
           SquaredDistance(patient_chunks[j].embedding, r.query_emb)
             <= r.chunks[1].score

\* C3: when the retrieval of answer_doctor_question yields no chunk, the call
\* returns the fixed no-information answer with an empty chunk list, and
\* llm_client.chat is not called.
C3_NoChunksNoChat ==
  \A patient_id \in CallPatientIds, question \in Questions, k \in Ks :
    \A chat \in ChatOutcomes :
      \A a \in answer_doctor_question(patient_id, question, chat, k) :
        (a.retrieved.status = "ok" /\ a.retrieved.chunks = <<>>)
          => /\ a.status = "ok"
             /\ a.answer = NoInformation
             /\ a.chunks = <<>>
             /\ a.chat_calls = 0

\* a patient without chunks is asked about, in a store that holds chunks, and
\* chat would have raised
C3_Witness ==
  /\ patient_chunks # <<>>
  /\ \E patient_id \in CallPatientIds, question \in Questions :
       /\ RowsOfPatient(patient_id) = {}
       /\ \E a \in answer_doctor_question(patient_id, question,
                                          [kind |-> "raise", text |-> <<>>], MaxK) :
            a.answer = NoInformation /\ a.chat_calls = 0

\* C4: retrieve_patient_chunks returns at most k chunks, in non-decreasing
\* order of their distance to the query.
C4_AtMostKSorted ==
  \A patient_id \in CallPatientIds, query \in Questions, k \in Ks :
    \A r \in Retrieved(patient_id, query, k) :
      /\ Len(r.chunks) <= k
      /\ \A i, j \in DOMAIN r.chunks :
           i < j => r.chunks[i].score <= r.chunks[j].score

\* a patient with more than k chunks gets k of them, at two distances
C4_Witness ==
  \E patient_id \in PatientIds, query \in Questions, k \in Ks :
    \E r \in Retrieved(patient_id, query, k) :
      /\ Cardinality(RowsOfPatient(patient_id)) > k
      /\ Len(r.chunks) = k
      /\ k >= 2
      /\ r.chunks[1].score < r.chunks[k].score

\* C5: the patient filter applies before the ranking: a patient with n chunks
\* gets exactly min(k, n) of them, and none of the patient's chunks left out
\* is strictly nearer the query than a returned one.
C5_FilterBeforeRank ==
  \A patient_id \in CallPatientIds, query \in Questions, k \in Ks :
    \A r \in Retrieved(patient_id, query, k) :
      LET n == Cardinality(RowsOfPatient(patient_id))
      IN /\ Len(r.chunks) = (IF k < n THEN k ELSE n)
         /\ Cardinality(ChunkIds(r.chunks)) = Len(r.chunks)
         /\ ChunkIds(r.chunks) \subseteq
              {patient_chunks[j].id : j \in RowsOfPatient(patient_id)}
         /\ \A j \in RowsOfPatient(patient_id) :
              patient_chunks[j].id \notin ChunkIds(r.chunks)
                => \A i \in DOMAIN r.chunks :
                     ~(SquaredDistance(patient_chunks[j].embedding, r.query_emb)
                         < r.chunks[i].score)

\* k chunks of a patient are returned, one is left out, and another patient's
\* chunk is strictly nearer the query than every returned one
C5_Witness ==
  \E patient_id \in PatientIds, query \in Questions, k \in Ks :
    \E r \in Retrieved(patient_id, query, k) :
      /\ k >= 1
      /\ Len(r.chunks) = k
      /\ Cardinality(RowsOfPatient(patient_id)) > k
      /\ \E j \in DOMAIN patient_chunks :
           /\ patient_chunks[j].patient_id # patient_id
           /\ \A i \in DOMAIN r.chunks :
                SquaredDistance(patient_chunks[j].embedding, r.query_emb)
                  < r.chunks[i].score

(***************************************************************************)
(* Extraction.                                                             *)
(***************************************************************************)
ExistingEncounterIds == {e.id : e \in encounters}

BuildOps ==
  {"build_structured_intake_with_llm", "build_structured_intake_for_encounter"}

\* the last call was build_structured_intake_with_llm
LLMBuildDone == out.op = "build_structured_intake_with_llm"

ModelFields ==
  {"chief_complaint", "symptoms", "medications", "allergies",
   "past_medical_history", "family_history", "social_history", "red_flags",
   "patient_goals", "other_notes"}

\* m is a StructuredIntakeModel: it has the ten fields, and its dump passes
\* the schema and reads back as m
IsStructuredIntakeModel(m) ==
  /\ DOMAIN m = ModelFields
  /\ model_validate(model_dump(m)) = [ok |-> TRUE, model |-> m]

\* the data of the encounter's rows in the structured_intake table
StoredData(encounter_id) ==
  {structured_intake[i].data : i \in StructuredRows(structured_intake, encounter_id)}

\* C2: for an existing encounter, whatever the transcript and whatever the
\* language model does, build_structured_intake_with_llm returns a valid
\* StructuredIntakeModel and does not raise.
C2_ExtractionTotal ==
  (LLMBuildDone /\ out.encounter_id \in ExistingEncounterIds)
    => (out.status = "ok" /\ IsStructuredIntakeModel(out.result))

\* the language-model call raised for an encounter with an empty transcript,
\* and a record came back
C2_Witness ==
  /\ LLMBuildDone
  /\ out.encounter_id \in ExistingEncounterIds
  /\ out.llm = "raise"
  /\ load_utterances_for_encounter(out.encounter_id) = <<>>
  /\ out.status = "ok"

\* C6: the structured_intake table holds at most one row per encounter, exactly
\* one once a build for the encounter has returned, and that row's data is the
\* record the most recent such build returned.
C6_UpsertInvariant ==
  \A e \in CallEncounterIds :
    /\ Cardinality(StructuredRows(structured_intake, e)) <= 1
    /\ returned[e] # None
         => /\ Cardinality(StructuredRows(structured_intake, e)) = 1
            /\ \A d \in StoredData(e) :
                 model_validate(d) = [ok |-> TRUE, model |-> returned[e][1]]

\* a second build for e1 replaced the record of the first, which was stored
\* before the row of e2, by a different record
C6_Witness ==
  /\ out.op \in BuildOps
  /\ out.encounter_id = "e1"
  /\ Len(structured_intake) = 2
  /\ structured_intake[1].encounter_id = "e1"
  /\ LLMBuildDone /\ ~out.fallback
  /\ out.result # HeuristicModel(load_utterances_for_encounter("e1"))

StageOneFailures == {"raise", "not_json", "schema_mismatch"}

\* C7: when the language-model call raises, or its response is not JSON or
\* fails the schema, build_structured_intake_with_llm returns the record the
\* heuristic builder computes from the transcript, and the stored record of
\* the encounter is that record.
C7_FailureRecovered ==
  (LLMBuildDone /\ out.status = "ok" /\ out.llm \in StageOneFailures)
    => LET h == HeuristicModel(load_utterances_for_encounter(out.encounter_id))
       IN /\ out.fallback
          /\ out.result = h
          /\ StoredData(out.encounter_id) = {model_dump(h)}

\* a response that fails the schema was recovered for a transcript with a
\* patient turn: the record holds the turn and nothing of the response
C7_Witness ==
  /\ LLMBuildDone /\ out.status = "ok"
  /\ out.llm = "schema_mismatch"
  /\ Truthy(out.result.chief_complaint)
  /\ out.result.medications = <<>>

\* C8 as stated: the fallback stage always completes with a record, whatever
\* triggered it.
C8_FallbackNeverFails ==
  (LLMBuildDone /\ out.fallback) => out.status = "ok"

\* C8: the fallback stage completes with a valid record for every existing
\* encounter; for an encounter that does not exist it raises the not-found
\* error again.
C8_FallbackFailsOnlyNotFound ==
  (LLMBuildDone /\ out.fallback)
    => IF out.encounter_id \in ExistingEncounterIds
       THEN out.status = "ok" /\ IsStructuredIntakeModel(out.result)
       ELSE out.status = "not_found"

\* the fallback ran because the encounter was not found, and raised
C8_Witness ==
  /\ LLMBuildDone /\ out.fallback
  /\ out.encounter_id \notin ExistingEncounterIds
  /\ out.status = "not_found"

(***************************************************************************)
(* Not found.                                                              *)
(***************************************************************************)
\* the encounter of the id is missing, or its patient is
Missing(encounter_id) ==
  \/ encounter_id \notin ExistingEncounterIds
  \/ \E e \in encounters :
       e.id = encounter_id /\ e.patient_id \notin {p.id : p \in patients}

\* C9: a call of build_structured_intake_with_llm, of the heuristic builder or
\* of index_encounter_for_rag for an encounter that does not exist (or whose
\* patient does not, for the indexer) ends in the not-found error and leaves
\* the structured_intake and patient_chunks tables as they were.
C9_NotFoundNoPartialWork ==
  [][(/\ out'.op \in BuildOps \cup {"index_encounter_for_rag"}
      /\ IF out'.op = "index_encounter_for_rag"
         THEN Missing(out'.encounter_id)
         ELSE out'.encounter_id \notin ExistingEncounterIds)
       => /\ out'.status = "not_found"
          /\ structured_intake' = structured_intake
          /\ patient_chunks' = patient_chunks]_vars

\* build_structured_intake_with_llm ended in not-found over tables that hold
\* a record and chunks
C9_Witness ==
  /\ LLMBuildDone
  /\ out.status = "not_found"
  /\ out.encounter_id \notin ExistingEncounterIds
  /\ structured_intake # <<>>
  /\ patient_chunks # <<>>

(***************************************************************************)
(* The heuristic fields.                                                   *)
(***************************************************************************)
HeuristicDone ==
  out.op = "build_structured_intake_for_encounter" /\ out.status = "ok"

\* the patient turns of the encounter, and the (timestamp, id) order
PatientTurns(encounter_id) ==
  {u \in utterances : u.encounter_id = encounter_id /\ u.speaker = "patient"}

EarlierTurn(a, b) == a.ts < b.ts \/ (a.ts = b.ts /\ a.id < b.id)

FirstPatientTurn(encounter_id) ==
  CHOOSE u \in PatientTurns(encounter_id) :
    \A o \in PatientTurns(encounter_id) \ {u} : EarlierTurn(u, o)

LastPatientTurn(encounter_id) ==
  CHOOSE u \in PatientTurns(encounter_id) :
    \A o \in PatientTurns(encounter_id) \ {u} : EarlierTurn(o, u)

\* t is text without its leading and trailing whitespace
IsStripOf(t, text) ==
  \E a, b \in 0..Len(text) :
    /\ a + Len(t) + b = Len(text)
    /\ \A i \in 1..Len(t) : t[i] = text[a + i]
    /\ \A i \in 1..a : text[i] \in Whitespace
    /\ \A i \in 1..b : text[Len(text) + 1 - i] \in Whitespace
    /\ t # <<>> => (t[1] \notin Whitespace /\ t[Len(t)] \notin Whitespace)

\* C10 as stated: chief_complaint is the text of the first patient turn and
\* patient_goals the text of the last; both are null without a patient turn,
\* and equal with exactly one.
C10_FieldsAreTurnTexts ==
  HeuristicDone
    => LET turns == PatientTurns(out.encounter_id)
       IN IF turns = {}
          THEN out.result.chief_complaint = None /\ out.result.patient_goals = None
          ELSE /\ out.result.chief_complaint =
                    Some(FirstPatientTurn(out.encounter_id).text)
               /\ out.result.patient_goals =
                    Some(LastPatientTurn(out.encounter_id).text)
               /\ Cardinality(turns) = 1
                    => out.result.chief_complaint = out.result.patient_goals

\* C10: chief_complaint is the text of the first patient turn in (timestamp,
\* id) order without its leading and trailing whitespace, and patient_goals
\* that of the last; both are null without a patient turn, and equal with
\* exactly one.
C10_FieldsAreStrippedTurnTexts ==
  HeuristicDone
    => LET turns == PatientTurns(out.encounter_id)
           cc == out.result.chief_complaint
           goals == out.result.patient_goals
       IN IF turns = {}
          THEN cc = None /\ goals = None
          ELSE /\ cc # None /\ goals # None
               /\ IsStripOf(cc[1], FirstPatientTurn(out.encounter_id).text)
               /\ IsStripOf(goals[1], LastPatientTurn(out.encounter_id).text)
               /\ Cardinality(turns) = 1 => cc = goals

\* two patient turns whose timestamps reverse their ids, the first of them
\* padded with whitespace: the fields differ, and the chief complaint is not
\* the turn's text as stored
C10_Witness ==
  /\ HeuristicDone
  /\ \E a, b \in PatientTurns(out.encounter_id) : a.id < b.id /\ b.ts < a.ts
  /\ out.result.chief_complaint # out.result.patient_goals
  /\ out.result.chief_complaint # Some(FirstPatientTurn(out.encounter_id).text)

\* the placeholder entry: named "reported symptom", every other field null
\* or empty
PlaceholderSymptom ==
  [name |-> <<"reported symptom">>, onset |-> None, duration |-> None,
   location |-> None, character |-> None, severity |-> None,
   aggravating_factors |-> None, relieving_factors |-> None,
   associated_symptoms |-> <<>>, red_flags |-> <<>>]

\* C11: in the heuristic record, symptoms is the one placeholder entry whenever
\* chief_complaint is not null and the empty list exactly when it is null;
\* medications, allergies, the three histories and red_flags are empty.
C11_HeuristicLists ==
  HeuristicDone
    => /\ out.result.chief_complaint # None
            => out.result.symptoms = <<PlaceholderSymptom>>
       /\ out.result.chief_complaint = None <=> out.result.symptoms = <<>>
       /\ out.result.medications = <<>>
       /\ out.result.allergies = <<>>
       /\ out.result.past_medical_history = <<>>
       /\ out.result.family_history = <<>>
       /\ out.result.social_history = <<>>
       /\ out.result.red_flags = <<>>

(***************************************************************************)
(* Requests in flight: what a concurrent reader can see.                   *)
(***************************************************************************)
\* a reader (GET structured) sees the record the completion p extracted
RecordVisible(p) ==
  /\ requests[p].record # <<>>
  /\ StoredData(requests[p].encounter_id) = {model_dump(requests[p].record[1])}

\* the rows a reader (patient QA) can see of those the request p wrote
VisibleChunks(p) ==
  {i \in DOMAIN patient_chunks : patient_chunks[i].id \in requests[p].written}

\* the chunk set built from the record of the completion p and the transcript
CompletionChunks(p) ==
  build_chunks_from_structured(requests[p].record)
    \o build_chunks_from_utterances(
         load_utterances_for_encounter(requests[p].encounter_id))

\* every chunk of the completion is visible, and nothing else was written
AllChunksVisible(p) ==
  /\ Cardinality(VisibleChunks(p)) = Len(CompletionChunks(p))
  /\ \A c \in DOMAIN CompletionChunks(p) :
       \E i \in VisibleChunks(p) :
         /\ patient_chunks[i].text = CompletionChunks(p)[c].text
         /\ patient_chunks[i].source_type = CompletionChunks(p)[c].source_type

\* C12: at every point a reader can observe the store, for every completion of
\* an encounter either neither its structured record nor any of its chunks is
\* visible, or the record and the full chunk set built from it are visible.
C12_NoPartialCompletion ==
  \A p \in Procs :
    requests[p].kind = "complete"
      => \/ ~RecordVisible(p) /\ VisibleChunks(p) = {}
         \/ RecordVisible(p) /\ AllChunksVisible(p)

\* a completion reached its end: the record and its chunks are all visible
C12_Witness ==
  \E p \in Procs :
    /\ requests[p].kind = "complete" /\ requests[p].pc = "done"
    /\ RecordVisible(p) /\ AllChunksVisible(p)
    /\ VisibleChunks(p) # {}

\* the indexing runs that completed
DoneIndexing == {p \in Procs : requests[p].pc = "done" /\ requests[p].patient_id # ""}

\* the rows the run p wrote are one complete copy of the chunk set it built,
\* each row with the encounter's patient_id and the encounter_id
CopyComplete(p) ==
  /\ Cardinality(VisibleChunks(p)) = Len(requests[p].chunks)
  /\ Cardinality(requests[p].written) = Len(requests[p].chunks)
  /\ \A c \in DOMAIN requests[p].chunks :
       \E i \in VisibleChunks(p) :
         /\ patient_chunks[i].text = requests[p].chunks[c].text
         /\ patient_chunks[i].source_type = requests[p].chunks[c].source_type
         /\ patient_chunks[i].embedding = requests[p].embeddings[c]
  /\ \A i \in VisibleChunks(p) :
       /\ patient_chunks[i].encounter_id = requests[p].encounter_id
       /\ \E e \in encounters : /\ e.id = requests[p].encounter_id
                                 /\ e.patient_id = patient_chunks[i].patient_id

\* n completed runs leave n copies: every copy is complete, no two share a
\* row, and every row belongs to a copy
CopiesComplete ==
  /\ \A p \in DoneIndexing : CopyComplete(p)
  /\ \A p, q \in DoneIndexing :
       p # q => requests[p].written \cap requests[q].written = {}
  /\ \A i \in DOMAIN patient_chunks :
       \E p \in DoneIndexing : patient_chunks[i].id \in requests[p].written

\* C13: under every interleaving of requests, a step leaves every committed
\* chunk as it was and deletes none, and the completed indexing runs leave
\* one complete copy of the encounter's chunk set each, with the encounter's
\* patient_id and encounter_id.
C13_AppendOnly ==
  [][/\ Len(patient_chunks') >= Len(patient_chunks)
     /\ \A i \in DOMAIN patient_chunks : patient_chunks'[i] = patient_chunks[i]
     /\ CopiesComplete']_vars

\* two runs for the same encounter built the same chunk set, both completed,
\* and the table holds two copies of it
C13_Witness ==
  /\ DoneIndexing = Procs
  /\ requests["r1"].encounter_id = requests["r2"].encounter_id
  /\ requests["r1"].chunks = requests["r2"].chunks
  /\ requests["r1"].chunks # <<>>
  /\ Len(patient_chunks) = 2 * Len(requests["r1"].chunks)

(***************************************************************************)
(* Provenance.                                                             *)
(***************************************************************************)
IndexDone(o) == o.op = "index_encounter_for_rag" /\ o.status = "ok"

\* C14: every stored chunk has the patient_id of exactly one patient, and the
\* rows a call index_encounter_for_rag(E) writes carry E as encounter_id and
\* the patient of E as patient_id.
C14_Provenance ==
  [][/\ \A i \in DOMAIN patient_chunks' :
          Cardinality({pt \in patients : pt.id = patient_chunks'[i].patient_id}) = 1
     /\ IndexDone(out')
          => \A i \in (DOMAIN patient_chunks') \ (DOMAIN patient_chunks) :
               /\ patient_chunks'[i].encounter_id = out'.encounter_id
               /\ \E e \in encounters :
                    /\ e.id = out'.encounter_id
                    /\ e.patient_id = patient_chunks'[i].patient_id]_vars

\* index_encounter_for_rag(e2) wrote rows into a table that holds chunks of the
\* other patient
C14_Witness ==
  /\ IndexDone(out)
  /\ out.encounter_id = "e2"
  /\ out.inserted >= 1
  /\ \E i \in DOMAIN patient_chunks : patient_chunks[i].patient_id = "pA"
  /\ patient_chunks[Len(patient_chunks)].patient_id = "pB"

(***************************************************************************)
(* Dimension mismatch.                                                     *)
(***************************************************************************)
\* lists of texts a caller may pass to embed
EmbedInputs == {<<>>, <<<<"a">>>>, <<<<"a">>, <<"b">>>>}

\* the call index_encounter_for_rag(encounter_id) reaches emb_client.embed
ReachesEmbed(encounter_id) ==
  LET loaded == load_encounter_with_structured(encounter_id)
  IN loaded.status = "ok" /\ EncounterChunks(loaded) # <<>>

\* an indexing step that reached embed failed and wrote nothing
IndexAborted ==
  (out'.op = "index_encounter_for_rag" /\ ReachesEmbed(out'.encounter_id))
    => (out'.status = "error" /\ patient_chunks' = patient_chunks)

\* C15 as stated: with a native width other than the configured dimension,
\* embed fails on every call, and an indexing call that reaches it raises and
\* leaves patient_chunks unchanged.
C15_MismatchFailsEveryCall ==
  [][native_dim # embedding_dim
       => /\ \A texts \in EmbedInputs : \A r \in embed(texts) : ~r.ok
          /\ IndexAborted]_vars

\* C15: with a native width other than the configured dimension, embed fails
\* on every call with at least one text (for no text it returns the empty
\* array), and an indexing call that reaches it raises and leaves
\* patient_chunks unchanged.
C15_MismatchAborts ==
  [][native_dim # embedding_dim
       => /\ \A texts \in EmbedInputs \ {<<>>} : \A r \in embed(texts) : ~r.ok
          /\ \A r \in embed(<<>>) : r.ok /\ r.vectors = <<>>
          /\ IndexAborted]_vars

\* with another native width, an indexing call for an encounter that has a
\* record and a patient turn raised, and patient_chunks is empty
C15_Witness ==
  /\ native_dim # embedding_dim
  /\ out.op = "index_encounter_for_rag"
  /\ out.status = "error"
  /\ StoredData(out.encounter_id) # {}
  /\ patient_chunks = <<>>

(***************************************************************************)
(* Doctor QA.                                                              *)
(***************************************************************************)
\* C16: for every patient_id and question, and every outcome of the embedding
\* step, of the query and of the chat call, answer_doctor_question returns an
\* answer string and surfaces no failure.
C16_AlwaysAnswers ==
  \A patient_id \in CallPatientIds, question \in Questions, k \in Ks :
    \A chat \in ChatOutcomes :
      \A a \in answer_doctor_question(patient_id, question, chat, k) :
        a.status = "ok" /\ a.answer # <<>>

\* a patient with chunks is asked about, the chunks are retrieved, and the
\* chat call raises
C16_Witness ==
  \E patient_id \in PatientIds, question \in Questions :
    \E a \in answer_doctor_question(patient_id, question,
                                     [kind |-> "raise", text |-> <<>>], MaxK) :
      /\ a.retrieved.status = "ok"
      /\ a.retrieved.chunks # <<>>
      /\ a.chat_calls = 1
      /\ a.status = "error"

\* C17: when at least one chunk is retrieved, answer_doctor_question calls
\* chat exactly once, and the call that returns gives the text of chat
\* unchanged and exactly the retrieved chunks, in the order of the retrieval.
C17_VerbatimAnswer ==
  \A patient_id \in CallPatientIds, question \in Questions, k \in Ks :
    \A chat \in ChatOutcomes :
      \A a \in answer_doctor_question(patient_id, question, chat, k) :
        (a.retrieved.status = "ok" /\ a.retrieved.chunks # <<>>)
          => /\ a.chat_calls = 1
             /\ a.status = "ok" <=> chat.kind = "text"
             /\ a.status = "ok"
                  => (a.answer = chat.text /\ a.chunks = a.retrieved.chunks)

\* two chunks that differ are retrieved for a patient and chat returns a text
C17_Witness ==
  \E patient_id \in PatientIds, question \in Questions, chat \in ChatOutcomes :
    \E a \in answer_doctor_question(patient_id, question, chat, MaxK) :
      /\ a.status = "ok"
      /\ Len(a.retrieved.chunks) = 2
      /\ a.retrieved.chunks[1] # a.retrieved.chunks[2]
      /\ a.answer = chat.text
      /\ a.chunks = a.retrieved.chunks

(***************************************************************************)
(* _build_chunks_from_structured over the records of the schema: every     *)
(* Optional[str] field is None, the empty string or a text, every list is  *)
(* empty or holds one item.                                                *)
(***************************************************************************)
OptStrValues == {None, Some(<<>>), Some(<<"x">>)}
StrListValues == {<<>>, <<<<"x">>>>}

StructuredModels ==
  [chief_complaint : OptStrValues,
   symptoms : {<<>>, <<Symptom(<<"s">>)>>},
   medications : {<<>>, <<[name |-> <<"m">>, dose |-> Some(<<"d">>),
                           frequency |-> None, route |-> None,
                           indication |-> None]>>},
   allergies : {<<>>, <<[substance |-> <<"g">>, reaction |-> None,
                         severity |-> None]>>},
   past_medical_history : StrListValues,
   family_history : StrListValues,
   social_history : StrListValues,
   red_flags : StrListValues,
   patient_goals : OptStrValues,
   other_notes : OptStrValues]

\* the argument of _build_chunks_from_structured: None or a model
StructuredInputs == {None} \cup {Some(m) : m \in StructuredModels}

InitChunker ==
  /\ patients = {[id |-> p] : p \in PatientIds}
  /\ encounters = {[id |-> e, patient_id |-> PatientOfEncounter[e]] : e \in EncounterIds}
  /\ utterances = {}
  /\ structured_intake = <<>>
  /\ patient_chunks = <<>>
  /\ native_dim = embedding_dim
  /\ returned = [e \in CallEncounterIds |-> None]
  /\ requests = [p \in Procs |-> IdleRequest]
  /\ session_states = NoSessions
  /\ out \in {[op |-> "input", structured |-> s] : s \in StructuredInputs}

BuildChunksFromStructured ==
  /\ out.op = "input"
  /\ out' = [op |-> "_build_chunks_from_structured",
             structured |-> out.structured,
             chunks |-> build_chunks_from_structured(out.structured)]
  /\ UNCHANGED <<session_states, patients, encounters, utterances, structured_intake,
                 patient_chunks, native_dim, returned, requests>>

NextChunker == BuildChunksFromStructured

SpecChunker == InitChunker /\ [][NextChunker]_vars

\* the label each field group's chunk starts with
GroupLabel ==
  [chief_complaint |-> "Chief complaint: ",
   symptoms |-> "Symptoms: ",
   medications |-> "Medications: ",
   allergies |-> "Allergies: ",
   past_medical_history |-> "Past medical history: ",
   family_history |-> "Family history: ",
   social_history |-> "Social history: ",
   red_flags |-> "Red flags: ",
   patient_goals |-> "Patient goals: ",
   other_notes |-> "Other notes: "]

OptStrGroups == {"chief_complaint", "patient_goals", "other_notes"}

\* the group g of model m is neither null nor empty
Populated(m, g) ==
  IF g \in OptStrGroups THEN m[g] # None /\ m[g][1] # <<>> ELSE m[g] # <<>>

\* the positions of the chunks of group g
ChunksOfGroup(chunks, g) ==
  {i \in DOMAIN chunks : chunks[i].text[1] = GroupLabel[g]}

\* C18: _build_chunks_from_structured emits one chunk for each field group
\* that is neither null nor empty and none for the other groups, so as many
\* chunks as there are such groups; no record gives no chunk, and a record
\* with only chief_complaint set gives exactly one chunk.
C18_OneChunkPerGroup ==
  out.op = "_build_chunks_from_structured"
    => IF out.structured = None THEN out.chunks = <<>>
       ELSE LET m == out.structured[1]
                populated == {g \in ModelFields : Populated(m, g)}
            IN /\ \A g \in ModelFields :
                    Cardinality(ChunksOfGroup(out.chunks, g))
                      = IF g \in populated THEN 1 ELSE 0
               /\ Len(out.chunks) = Cardinality(populated)
               /\ \A i \in DOMAIN out.chunks :
                    out.chunks[i].source_type = "structured"
               /\ populated = {"chief_complaint"} => Len(out.chunks) = 1

\* the chunks of a record with only chief_complaint set, the other Optional
\* fields being empty strings, were built
C18_Witness ==
  /\ out.op = "_build_chunks_from_structured"
  /\ out.structured # None
  /\ out.structured[1].chief_complaint = Some(<<"x">>)
  /\ out.structured[1].patient_goals = Some(<<>>)
  /\ out.structured[1].other_notes = Some(<<>>)
  /\ \A g \in ModelFields \ OptStrGroups : out.structured[1][g] = <<>>
  /\ Len(out.chunks) = 1

(***************************************************************************)
(* _build_chunks_from_utterances over every transcript of up to            *)
(* MaxPairTurns turns, in the order _load_encounter_with_structured gives. *)
(***************************************************************************)
PairTexts == {<<"a">>, <<"b">>, <<>>}

\* a turn: the assistant's text is one of the agent's questions, never empty
Turns ==
  {u \in [speaker : Speakers, text : PairTexts] :
     u.speaker = "assistant" => u.text # <<>>}

Transcripts == UNION {[1..n -> Turns] : n \in 0..MaxPairTurns}

InitPairing ==
  /\ patients = {[id |-> p] : p \in PatientIds}
  /\ encounters = {[id |-> e, patient_id |-> PatientOfEncounter[e]] : e \in EncounterIds}
  /\ utterances = {}
  /\ structured_intake = <<>>
  /\ patient_chunks = <<>>
  /\ native_dim = embedding_dim
  /\ returned = [e \in CallEncounterIds |-> None]
  /\ requests = [p \in Procs |-> IdleRequest]
  /\ session_states = NoSessions
  /\ out \in {[op |-> "input", utts |-> t] : t \in Transcripts}

BuildChunksFromUtterances ==
  /\ out.op = "input"
  /\ out' = [op |-> "_build_chunks_from_utterances",
             utts |-> out.utts,
             qas |-> QAsLoop(out.utts, <<>>, None),
             chunks |-> build_chunks_from_utterances(out.utts)]
  /\ UNCHANGED <<session_states, patients, encounters, utterances, structured_intake,
                 patient_chunks, native_dim, returned, requests>>

NextPairing == BuildChunksFromUtterances

SpecPairing == InitPairing /\ [][NextPairing]_vars

\* the positions of the patient turns (every speaker but the assistant)
PatientPositions(utts) == {i \in DOMAIN utts : utts[i].speaker # "assistant"}

\* the position of the n-th patient turn
NthPatientPosition(utts, n) ==
  CHOOSE i \in PatientPositions(utts) :
    Cardinality({k \in PatientPositions(utts) : k <= i}) = n

\* the assistant turns before position j
AssistantBefore(utts, j) == {i \in 1..(j - 1) : utts[i].speaker = "assistant"}

\* the nearest assistant turn before position j
NearestAssistant(utts, j) ==
  CHOOSE i \in AssistantBefore(utts, j) : \A k \in AssistantBefore(utts, j) : k <= i

\* an assistant turn precedes the patient turn at j, and no patient turn
\* between the nearest one and j has taken it
PairsWithAssistant(utts, j) ==
  /\ AssistantBefore(utts, j) # {}
  /\ \A k \in PatientPositions(utts) : ~(NearestAssistant(utts, j) < k /\ k < j)

\* C19: the fragments are one per patient turn, in the order of the
\* transcript; a patient turn is paired with the nearest assistant turn before
\* it when there is one that no earlier patient turn was paired with, and is
\* an answer-only fragment otherwise, so no assistant turn is in two pairs.
C19_PairsNextPatientTurn ==
  out.op = "_build_chunks_from_utterances"
    => /\ Len(out.qas) = Cardinality(PatientPositions(out.utts))
       /\ \A n \in DOMAIN out.qas :
            LET j == NthPatientPosition(out.utts, n)
            IN out.qas[n] =
                 IF PairsWithAssistant(out.utts, j)
                 THEN <<"Q: ">> \o out.utts[NearestAssistant(out.utts, j)].text
                        \o <<" A: ">> \o out.utts[j].text
                 ELSE <<"A: ">> \o out.utts[j].text

\* an assistant turn followed by two patient turns: both fragments carry the
\* question
C19_Witness ==
  /\ out.op = "_build_chunks_from_utterances"
  /\ Len(out.utts) = 3
  /\ out.utts[1].speaker = "assistant"
  /\ out.utts[2].speaker = "patient"
  /\ out.utts[3].speaker = "patient"
  /\ Len(out.qas) = 2
  /\ out.qas[1][1] = "Q: "
  /\ out.qas[2][1] = "Q: "

(***************************************************************************)
(* The chunks of one indexing run.                                         *)
(***************************************************************************)
\* the transcript of encounter_id has a patient turn
HasPatientTurn(encounter_id) ==
  \E u \in utterances : u.encounter_id = encounter_id /\ u.speaker # "assistant"

\* the utterance chunks among the chunks of a run
UtteranceChunks(chunks) ==
  {i \in DOMAIN chunks : chunks[i].source_type = "utterance"}

ContextChunks ==
  [id : {1}, encounter_id : EncounterIds, source_type : {"structured", "utterance"},
   text : {<<"a">>, <<"b", "\n">>}, score : {0}]

ContextInputs == UNION {[1..n -> ContextChunks] : n \in 0..MaxContextChunks}

InitContext ==
  /\ patients = {[id |-> p] : p \in PatientIds}
  /\ encounters = {[id |-> e, patient_id |-> PatientOfEncounter[e]] : e \in EncounterIds}
  /\ utterances = {}
  /\ structured_intake = <<>>
  /\ patient_chunks = <<>>
  /\ native_dim = embedding_dim
  /\ returned = [e \in CallEncounterIds |-> None]
  /\ requests = [p \in Procs |-> IdleRequest]
  /\ session_states = NoSessions
  /\ out \in {[op |-> "input", chunks |-> c] : c \in ContextInputs}

BuildContext ==
  /\ out.op = "input"
  /\ out' = [op |-> "_build_context", chunks |-> out.chunks,
             context |-> build_context(out.chunks)]
  /\ UNCHANGED <<session_states, patients, encounters, utterances, structured_intake,
                 patient_chunks, native_dim, returned, requests>>

NextContext == BuildContext

SpecContext == InitContext /\ [][NextContext]_vars

\* the position in the context where the entry of chunk i starts: after the
\* entries before it, each with its seven reference tokens, the space, its
\* text and the newline that ends it
RECURSIVE EntryStart(_, _)
EntryStart(chunks, i) ==
  IF i = 1 THEN 1
  ELSE EntryStart(chunks, i - 1) + 7 + 1 + Len(chunks[i - 1].text) + 1

\* C21: the context of n chunks is n entries in the order of the chunks, and
\* nothing else; entry i holds the number i, the encounter_id and the
\* source_type of chunk i, and the whole text of chunk i.
C21_ContextPreservesChunks ==
  out.op = "_build_context"
    => LET chunks == out.chunks
           ctx == out.context
           n == Len(chunks)
       IN /\ Len(ctx) = IF n = 0 THEN 0 ELSE EntryStart(chunks, n + 1) - 2
          /\ \A i \in 1..n :
               LET at == EntryStart(chunks, i)
               IN /\ ctx[at] = "[chunk "
                  /\ ctx[at + 1] = ToString(i)
                  /\ ctx[at + 3] = chunks[i].encounter_id
                  /\ ctx[at + 5] = chunks[i].source_type
                  /\ SubSeq(ctx, at + 8, at + 7 + Len(chunks[i].text)) = chunks[i].text
                  /\ i < n => ctx[at + 8 + Len(chunks[i].text)] = "\n"

\* the context of three chunks, not all alike, one with a newline in its text
C21_Witness ==
  /\ out.op = "_build_context"
  /\ Len(out.chunks) = 3
  /\ out.chunks[1] # out.chunks[2]
  /\ out.chunks[2].encounter_id # out.chunks[3].encounter_id
  /\ out.chunks[1].text = <<"b", "\n">>
  /\ out.context[2] = "1"

(***************************************************************************)
(* The intake conversation.                                                *)
(***************************************************************************)
\* C22: extraction and indexing run for the request in which the agent first
\* reports completion, and a message to an encounter that was already
\* complete neither runs the extraction again nor adds rows to patient_chunks.
C22_CompletionRunsOnce ==
  [][\A p \in Procs :
       requests'[p].kind = "message"
         => /\ requests'[p].was_complete
                 => /\ requests'[p].pc # "extracted"
                    /\ patient_chunks' = patient_chunks
            /\ (requests'[p].pc = "done" /\ ~requests'[p].was_complete
                   /\ requests'[p].next_question = None)
                 => requests'[p].record # None]_vars

\* a message to an encounter that was complete has run the extraction and
\* the indexing again: the encounter has two copies of its utterance chunk
C22_Witness ==
  \E p \in Procs :
    /\ requests[p].kind = "message"
    /\ requests[p].was_complete
    /\ requests[p].pc = "done"
    /\ requests[p].written # {}
    /\ Cardinality({i \in DOMAIN patient_chunks :
                      /\ patient_chunks[i].encounter_id = requests[p].encounter_id
                      /\ patient_chunks[i].source_type = "utterance"}) = 2

\* C23: for every encounter with a session state, the persisted utterances
\* in (ts, id) order have the speakers and texts of state.turns in the same
\* order, and alternate assistant, patient from an assistant turn.
C23_TranscriptMirrorsState ==
  \A e \in EncounterIds :
    session_states[e] # None
      => LET rows == load_utterances_for_encounter(e)
             turns == session_states[e][1].turns
         IN /\ Len(rows) = Len(turns)
            /\ \A i \in DOMAIN rows :
                 /\ rows[i].speaker = turns[i].role
                 /\ rows[i].text = turns[i].content
                 /\ rows[i].speaker = IF i % 2 = 1 THEN "assistant" ELSE "patient"

\* a message to a complete session is persisted but not recorded in the
\* state: the transcript ends with two patient turns
C23_Witness ==
  \E e \in EncounterIds :
    /\ session_states[e] # None
    /\ session_states[e][1].is_complete
    /\ LET rows == load_utterances_for_encounter(e)
           n == Len(rows)
       IN /\ n = Len(session_states[e][1].turns) + 1
          /\ rows[n].speaker = "patient"
          /\ rows[n - 1].speaker = "patient"

\* the stages in the order of the conversation
StageOrder ==
  <<"chief_complaint", "symptom_details", "safety_checks", "history", "wrap_up",
    "done">>

StageIndex(stage) == CHOOSE i \in DOMAIN StageOrder : StageOrder[i] = stage

\* C24: a session starts in the chief complaint stage, and every step leaves
\* the stage where it is or moves it to the next one of the order; the
\* stage_question_count is at most MAX_QUESTIONS_PER_STAGE of the stage (0
\* when done), and is_complete holds exactly when the stage is done.
C24_StageOrder ==
  [][\A e \in EncounterIds :
       session_states'[e] # None
         => LET new == session_states'[e][1]
            IN /\ new.stage \in {StageOrder[i] : i \in DOMAIN StageOrder}
               /\ new.stage_question_count
                    <= (IF new.stage = "done" THEN 0
                        ELSE MAX_QUESTIONS_PER_STAGE[new.stage])
               /\ new.is_complete <=> new.stage = "done"
               /\ IF session_states[e] = None
                  THEN new.stage = StageOrder[1]
                  ELSE StageIndex(new.stage) - StageIndex(session_states[e][1].stage)
                         \in {0, 1}]_vars

\* a session went through the stages to done
C24_Witness ==
  \E e \in EncounterIds :
    /\ session_states[e] # None
    /\ session_states[e][1].stage = "done"
    /\ session_states[e][1].is_complete
    /\ \A i \in 1..5 :
         \E j \in DOMAIN session_states[e][1].turns :
           session_states[e][1].turns[j] =
             IntakeTurn("assistant", QUESTIONS[StageOrder[i]][1])

\* the patient turns of a state
PatientTurnCount(state) ==
  Cardinality({i \in DOMAIN state.turns : state.turns[i].role = "patient"})

\* C25: a step returns None exactly when it leaves the session complete; on
\* a session not yet complete it returns a question for each of the first 9
\* patient messages and None for the 10th; on a complete session it leaves
\* the state as it is.
C25_TenMessages ==
  [][\A p \in Procs :
       LET r == requests'[p]
           e == r.encounter_id
       IN (r.kind = "message" /\ utterances' # utterances /\ SessionOf(e) # None)
            => LET old == session_states[e][1]
                   new == session_states'[e][1]
               IN /\ r.next_question = None <=> new.is_complete
                  /\ ~old.is_complete
                       => /\ PatientTurnCount(new) = PatientTurnCount(old) + 1
                          /\ PatientTurnCount(new) <= 10
                          /\ r.next_question = None <=> PatientTurnCount(new) = 10
                  /\ old.is_complete => new = old]_vars

\* the 10th message completed the session, and a later message was answered
\* with no question
C25_Witness ==
  \E p \in Procs :
    /\ requests[p].kind = "message"
    /\ requests[p].was_complete
    /\ requests[p].next_question = None
    /\ SessionOf(requests[p].encounter_id) # None
    /\ PatientTurnCount(SessionOf(requests[p].encounter_id)[1]) = 10

====
